---- MODULE Spec2Model ----
(***************************************************************************)
(* Supervision and recovery subsystem of dsl-rs: the per-stream lifecycle  *)
(* state machine, the pipeline controller and stream manager around it,    *)
(* the circuit breaker and the recovery manager.                           *)
(*                                                                         *)
(* Time is measured in milliseconds (Instant and Duration become naturals).*)
(* Option values use the string "None" for the absent case.                *)
(***************************************************************************)
EXTENDS Naturals, Integers, Sequences, FiniteSets, TLC

VARIABLES
    states,           \* StateMachine.states: stream name -> StreamState
    streams,          \* RobustPipeline.streams: name -> StreamInfo (its health)
    mgr_streams,      \* StreamManager.streams: id -> StreamHandle (its health)
    active_sources,   \* StreamManager.active_sources: the ids holding a source
    active_sinks,     \* StreamManager.active_sinks: the keys holding a sink
    uuid_next,        \* the next fresh uuid of add_source
    max_streams,      \* PipelineConfig.max_streams
    breaker,          \* one CircuitBreaker driven directly (unit level)
    cb_trace,         \* what has been called on that breaker (history only)
    policies,         \* RecoveryManager.policies
    circuit_breakers, \* RecoveryManager.circuit_breakers
    retry_configs,    \* RecoveryManager.retry_configs
    failure_history,  \* RecoveryManager.failure_history
    telemetry,        \* RecoveryManager.telemetry
    threads,          \* the call each caller thread is in the middle of
    watchdog,         \* the watchdog callback: where its tick stands
    event_log,        \* HealthMonitor.event_log
    isolated,         \* StreamIsolator.streams: name -> IsolatedStream (its panic_count)
    rtsp,             \* one RtspSourceRobust
    xr_trace,         \* what the execute_recovery calls in flight have met (history only)
    monitor,          \* StreamIsolator: running, and where its resource-monitor thread stands
    timers,           \* the periodic callbacks installed by WatchdogTimer and HealthMonitor
    procs,            \* the locks each thread holds and the step of the call it is in
    now,              \* the monotonic clock read by Instant::now()
    last              \* the last call made: its inputs, what it saw and returned

smVars == <<states>>
plVars == <<streams, mgr_streams, active_sources, active_sinks, uuid_next, max_streams>>
cbVars == <<breaker, cb_trace>>
rmVars == <<policies, circuit_breakers, retry_configs, failure_history, telemetry>>
yVars == <<monitor, timers, procs>>
xVars == <<isolated, rtsp, xr_trace, yVars>>
mtVars == <<threads, watchdog, event_log, xVars>>
vars == <<states, streams, mgr_streams, active_sources, active_sinks, uuid_next, max_streams,
          breaker, cb_trace, policies, circuit_breakers, retry_configs, failure_history,
          telemetry, threads, watchdog, event_log, isolated, rtsp, xr_trace, monitor, timers,
          procs, now, last>>

None == "None"

\* Option<Instant>: no value, or Some(t)
NoInstant == <<>>
Some(t) == <<t>>

----------------------------------------------------------------------------
(* Bounds of the model *)

\* add_source calls made in one behaviour (each draws a fresh uuid)
MaxUuid == 2
\* largest max_streams configured
MaxMaxStreams == 2
\* largest failure_threshold and success_threshold of a unit-level breaker
MaxThreshold == 3
\* largest half_open_attempts of a unit-level breaker
MaxHalfOpen == 2
\* largest timeout of a unit-level breaker, in ms
MaxTimeout == 2
\* the clock stops at MaxTime ms
MaxTime == 4
\* on_failure calls counted on a fresh breaker
MaxFailures == 5
\* rand() returns r / RandDen for r in 0..RandDen-1
RandDen == 2
\* start calls made on one WatchdogTimer or HealthMonitor
MaxTimerStarts == 2
\* the clock of the timer specification stops at TkMaxTime ms
TkMaxTime == 2000
\* largest attempt number passed to execute_recovery
MaxAttempt == 1
\* admitted execute_recovery calls in one behaviour
MaxCalls == 2
\* time passes between the calls of the recovery manager up to RmMaxTime ms
RmMaxTime == 200
\* largest watchdog timeout configured, in ms
MaxWdTimeout == 2
\* the clock of the watchdog specification stops at MaxWdTime ms
MaxWdTime == 3
\* watchdog expiries counted in one StreamHealth
MaxConsecutiveErrors == 2
\* admitted execute_recovery calls of the concurrent callers in one behaviour
MaxXrCalls == 3
\* the clock of the concurrent callers of execute_recovery stops at XrMaxTime ms
XrMaxTime == 400
\* largest max_attempts of the RTSP source's RetryConfig
MaxReconnects == 2
\* errors handled by one RTSP source
MaxRtspErrors == 2
\* panics handled for one isolated stream
MaxPanics == 5
\* entries pushed into a ring buffer in one behaviour
MaxPushes == 2
\* clock ticks between the pushes into the ring buffers
MaxRbTicks == 1
\* errors handled for one stream by handle_stream_error
MaxStreamErrors == 6
\* calculate_exponential_delay is called for every attempt 0..MaxDelayAttempt
\* (and for attempt 10 and the attempts around 2^31 and 2^32)
MaxDelayAttempt == 3

----------------------------------------------------------------------------
(* Constants of the program *)

\* the period of the watchdog callback, and the default check_interval of
\* the HealthMonitor, in ms
TimerPeriod == 1000
\* record_failure keeps the last 1000 failures
HistoryCap == 1000
\* the delay of RecoveryPolicy::FixedDelay, in ms
FixedDelayMs == 500
\* log_event_static keeps the event log under 1000 alerts before it appends
EventLogCap == 1000
\* handle_panic answers Remove once a stream has panicked more than 3 times
PanicLimit == 3
\* handle_stream_error gives a stream up at 5 consecutive errors
ErrorBudget == 5

----------------------------------------------------------------------------
(* core: StreamState, StreamHealth *)

StreamState == {"Idle", "Starting", "Running", "Paused", "Recovering", "Failed", "Stopped"}

\* StreamMetrics, held by its frames_processed counter
StreamMetrics_default == [frames_processed |-> 0]

StreamHealth_new ==
    [state |-> "Idle", metrics |-> StreamMetrics_default, consecutive_errors |-> 0,
     recovery_attempts |-> 0]

----------------------------------------------------------------------------
(* pipeline: StateMachine *)

TransitionCondition == {"OnSuccess", "OnError", "OnTimeout", "OnRecovery"}

\* The table with one row too many: Failed would recover on OnRecovery.
StateMachine_transitions_extra_row ==
    << [from |-> "Idle",       to |-> "Starting",   condition |-> "OnSuccess"],
       [from |-> "Starting",   to |-> "Running",    condition |-> "OnSuccess"],
       [from |-> "Starting",   to |-> "Failed",     condition |-> "OnError"],
       [from |-> "Running",    to |-> "Recovering", condition |-> "OnError"],
       [from |-> "Recovering", to |-> "Running",    condition |-> "OnRecovery"],
       [from |-> "Recovering", to |-> "Failed",     condition |-> "OnTimeout"],
       [from |-> "Running",    to |-> "Paused",     condition |-> "OnSuccess"],
       [from |-> "Paused",     to |-> "Running",    condition |-> "OnSuccess"],
       [from |-> "Failed",     to |-> "Recovering", condition |-> "OnRecovery"] >>

\* StateMachine::new: the transitions vector, in the order the code builds it
StateMachine_transitions ==
    << [from |-> "Idle",       to |-> "Starting",   condition |-> "OnSuccess"],
       [from |-> "Starting",   to |-> "Running",    condition |-> "OnSuccess"],
       [from |-> "Starting",   to |-> "Failed",     condition |-> "OnError"],
       [from |-> "Running",    to |-> "Recovering", condition |-> "OnError"],
       [from |-> "Recovering", to |-> "Running",    condition |-> "OnRecovery"],
       [from |-> "Recovering", to |-> "Failed",     condition |-> "OnTimeout"],
       [from |-> "Running",    to |-> "Paused",     condition |-> "OnSuccess"],
       [from |-> "Paused",     to |-> "Running",    condition |-> "OnSuccess"] >>

\* StateMachine::get_state: a stream with no entry reads as Idle
get_state(st, stream) ==
    IF stream \in DOMAIN st THEN st[stream] ELSE "Idle"

\* the loop of StateMachine::transition: the first row, from index i on, whose
\* from is the current state and whose condition has the same discriminant
RECURSIVE first_match(_, _, _, _)
first_match(table, current, condition, i) ==
    IF i > Len(table) THEN None
    ELSE IF table[i].from = current /\ table[i].condition = condition
         THEN table[i].to
         ELSE first_match(table, current, condition, i + 1)

\* insert of a HashMap / DashMap: add or replace the entry
insert(map, key, value) ==
    [k \in DOMAIN map \cup {key} |-> IF k = key THEN value ELSE map[k]]

\* remove of a HashMap / DashMap
remove(map, key) ==
    [k \in DOMAIN map \ {key} |-> map[k]]

\* StateMachine::transition: the table after the call and the value returned
transition(st, stream, condition) ==
    LET current == get_state(st, stream)
        to == first_match(StateMachine_transitions, current, condition, 1)
    IN  IF to = None
        THEN [states |-> st, ret |-> None]
        ELSE [states |-> insert(st, stream, to), ret |-> to]

\* what a call leaves in `last`
Call(op, stream, arg, ret) ==
    [op |-> op, stream |-> stream, arg |-> arg, ret |-> ret]

\* the names the unit tests of the state machine drive
SmNames == {"test", "other"}

\* a direct call of StateMachine::transition, as the unit tests make it
SM_transition(stream, condition) ==
    LET r == transition(states, stream, condition)
    IN  /\ states' = r.states
        /\ last' = Call("transition", stream, condition, r.ret)
        /\ UNCHANGED <<plVars, cbVars, mtVars, rmVars, now>>

----------------------------------------------------------------------------
(* pipeline: RobustPipeline, and stream: StreamManager *)

\* the key the bus watch uses for its error transition
PipelineKey == "pipeline"

\* the stream id add_source builds: "<config.name>_<uuid>"
StreamId(config_name, uuid) == config_name \o "_" \o ToString(uuid)

ConfigNames == {"stream"}

\* the names callers pass to RobustPipeline::add_stream themselves
DirectNames == {PipelineKey}

\* every key a stream map can hold in the model
StreamKeys == {PipelineKey} \cup {StreamId(c, u) : c \in ConfigNames, u \in 1..MaxUuid}

\* StreamInfo as add_stream builds it
StreamInfo_new(t) == [health |-> StreamHealth_new, last_activity |-> t]

\* StreamHandle as add_source builds it
StreamHandle_new == [health |-> StreamHealth_new]

\* an add_stream that refuses only above max_streams
add_stream_above_capacity(strs, st, name, add_ok, t) ==
    IF Cardinality(DOMAIN strs) > max_streams
    THEN [streams |-> strs, states |-> st, ret |-> "ResourceExhaustion"]
    ELSE IF ~add_ok
    THEN [streams |-> strs, states |-> st, ret |-> "Pipeline"]
    ELSE [streams |-> insert(strs, name, StreamInfo_new(t)),
          states |-> transition(st, name, "OnSuccess").states,
          ret |-> "Ok"]

\* RobustPipeline::add_stream on the pipeline's maps: max_streams check, the
\* framework's pipeline.add (add_ok), the insert and the OnSuccess transition
add_stream(strs, st, name, add_ok, t) ==
    IF Cardinality(DOMAIN strs) >= max_streams
    THEN [streams |-> strs, states |-> st, ret |-> "ResourceExhaustion"]
    ELSE IF ~add_ok
    THEN [streams |-> strs, states |-> st, ret |-> "Pipeline"]
    ELSE [streams |-> insert(strs, name, StreamInfo_new(t)),
          states |-> transition(st, name, "OnSuccess").states,
          ret |-> "Ok"]

\* RobustPipeline::remove_stream: the entry is taken out first, then the bin is
\* stopped and detached (gst_ok: both framework calls succeed)
remove_stream(strs, name, gst_ok) ==
    IF name \in DOMAIN strs
    THEN [streams |-> remove(strs, name), ret |-> IF gst_ok THEN "Ok" ELSE "Pipeline"]
    ELSE [streams |-> strs, ret |-> "Stream"]

\* a direct call of RobustPipeline::add_stream
AddStream(name, add_ok) ==
    LET r == add_stream(streams, states, name, add_ok, now)
    IN  /\ streams' = r.streams
        /\ states' = r.states
        /\ last' = Call("add_stream", name, add_ok, r.ret)
        /\ UNCHANGED <<mgr_streams, active_sources, active_sinks, uuid_next, max_streams,
                       cbVars, mtVars, rmVars, now>>

\* a direct call of RobustPipeline::remove_stream
RemoveStream(name, gst_ok) ==
    LET r == remove_stream(streams, name, gst_ok)
    IN  /\ streams' = r.streams
        /\ last' = Call("remove_stream", name, gst_ok, r.ret)
        /\ UNCHANGED <<states, mgr_streams, active_sources, active_sinks, uuid_next, max_streams,
                       cbVars, mtVars, rmVars, now>>

\* StreamManager::add_source: bin assembly (bin_ok), source.connect()
\* (connect_ok), RobustPipeline::add_stream, then the handle and the source
\* are stored
AddSource(config_name, bin_ok, connect_ok, add_ok) ==
    /\ uuid_next <= MaxUuid
    /\ LET id == StreamId(config_name, uuid_next)
           r == add_stream(streams, states, id, add_ok, now)
           args == [bin_ok |-> bin_ok, connect_ok |-> connect_ok, add_ok |-> add_ok]
       IN  /\ uuid_next' = uuid_next + 1
           /\ IF ~bin_ok
              THEN /\ last' = Call("add_source", id, args, "Stream")
                   /\ UNCHANGED <<states, streams, mgr_streams, active_sources>>
              ELSE IF ~connect_ok
              THEN /\ last' = Call("add_source", id, args, "Source")
                   /\ UNCHANGED <<states, streams, mgr_streams, active_sources>>
              ELSE IF r.ret # "Ok"
              THEN /\ last' = Call("add_source", id, args, r.ret)
                   /\ UNCHANGED <<states, streams, mgr_streams, active_sources>>
              ELSE /\ streams' = r.streams
                   /\ states' = r.states
                   /\ mgr_streams' = insert(mgr_streams, id, StreamHandle_new)
                   /\ active_sources' = active_sources \cup {id}
                   /\ last' = Call("add_source", id, args, "Ok")
    /\ UNCHANGED <<active_sinks, max_streams, cbVars, mtVars, rmVars, now>>

\* StreamManager::remove_source: the source is taken out and disconnected
\* (disconnect_ok; an error returns at once), the pipeline removes the stream
\* (an error returns at once), then the handle is dropped
RemoveSource(id, disconnect_ok, gst_ok) ==
    LET had == id \in active_sources
        r == remove_stream(streams, id, gst_ok)
        args == [disconnect_ok |-> disconnect_ok, gst_ok |-> gst_ok]
    IN  /\ active_sources' = active_sources \ {id}
        /\ IF had /\ ~disconnect_ok
           THEN /\ last' = Call("remove_source", id, args, "Source")
                /\ UNCHANGED <<streams, mgr_streams>>
           ELSE /\ streams' = r.streams
                /\ mgr_streams' = IF r.ret = "Ok" THEN remove(mgr_streams, id)
                                                  ELSE mgr_streams
                /\ last' = Call("remove_source", id, args, r.ret)
        /\ UNCHANGED <<states, active_sinks, uuid_next, max_streams, cbVars, mtVars, rmVars, now>>

\* the names of the sinks handed to add_sink
SinkNames == {"file"}

\* the key add_sink stores a sink under: "<stream_name>_<sink name>"
SinkKey(stream_name, sink_name) == stream_name \o "_" \o sink_name

\* StreamManager::add_sink: the stream is looked up first; then sink.prepare()
\* (prepare_ok), the sink is put into the bin and linked (link_ok), stored,
\* and its state synchronised (sync_ok). `prepared` records whether
\* sink.prepare() was called.
AddSink(stream_name, sink_name, prepare_ok, link_ok, sync_ok) ==
    LET found == stream_name \in DOMAIN mgr_streams
        stored == found /\ prepare_ok /\ link_ok
        args == [sink_name |-> sink_name, prepare_ok |-> prepare_ok,
                 link_ok |-> link_ok, sync_ok |-> sync_ok, prepared |-> found]
        ret == IF ~found THEN "Stream"
               ELSE IF ~prepare_ok THEN "Sink"
               ELSE IF ~link_ok \/ ~sync_ok THEN "Stream"
               ELSE "Ok"
    IN  /\ active_sinks' = IF stored
                           THEN active_sinks \cup {SinkKey(stream_name, sink_name)}
                           ELSE active_sinks
        /\ last' = Call("add_sink", stream_name, args, ret)
        /\ UNCHANGED <<states, streams, mgr_streams, active_sources, uuid_next,
                       max_streams, cbVars, mtVars, rmVars, now>>

\* bound on the recoveries counted in one StreamHealth
MaxRecoveries == 2

\* a recovery that forgets to count the attempt
recover_health_uncounted(health, new_state) ==
    [health EXCEPT !.state = new_state]

\* what trigger_recovery writes into the StreamHealth of a registered stream
recover_health(health, new_state) ==
    [health EXCEPT !.state = new_state, !.recovery_attempts = @ + 1]

\* RobustPipeline::trigger_recovery: the OnRecovery transition; when it is
\* made and the stream is registered its health takes the new state and counts
\* one more recovery attempt
TriggerRecovery(name) ==
    LET r == transition(states, name, "OnRecovery")
    IN  /\ name \in DOMAIN streams => streams[name].health.recovery_attempts < MaxRecoveries
        /\ states' = r.states
        /\ IF r.ret # None
           THEN /\ streams' =
                     IF name \in DOMAIN streams
                     THEN [streams EXCEPT ![name].health = recover_health(@, r.ret)]
                     ELSE streams
                /\ last' = Call("trigger_recovery", name, None, "Ok")
           ELSE /\ streams' = streams
                /\ last' = Call("trigger_recovery", name, None, "StateTransition")
        /\ UNCHANGED <<mgr_streams, active_sources, active_sinks, uuid_next, max_streams,
                       cbVars, mtVars, rmVars, now>>

\* the bus watch of start_event_handler on an Error message: the OnError
\* transition of the key "pipeline"
BusError ==
    /\ states' = transition(states, PipelineKey, "OnError").states
    /\ last' = Call("bus_error", PipelineKey, None, None)
    /\ UNCHANGED <<plVars, cbVars, mtVars, rmVars, now>>

\* RobustPipeline::stop: the watchdog and the metrics collector are told to
\* stop, the pipeline is set to Null (gst_ok) and the main loop quits. The
\* execute_recovery calls asleep when stop() returns Ok are noted in xr_trace.
Stop(gst_ok) ==
    /\ watchdog' = [watchdog EXCEPT !.running = FALSE]
    /\ xr_trace' = [xr_trace EXCEPT !.stopped =
                       IF gst_ok
                       THEN @ \cup {th \in DOMAIN threads : threads[th].pc = "sleep"}
                       ELSE @]
    /\ last' = Call("stop", None, gst_ok, IF gst_ok THEN "Ok" ELSE "Pipeline")
    /\ UNCHANGED <<smVars, plVars, cbVars, rmVars, threads, event_log, isolated, rtsp, yVars, now>>

\* StreamManager::pause_stream: the bin is set to Paused (gst_ok) and the
\* handle's health gets the state Paused
PauseStream(stream_name, gst_ok) ==
    LET found == stream_name \in DOMAIN mgr_streams
    IN  /\ mgr_streams' = IF found /\ gst_ok
                          THEN [mgr_streams EXCEPT ![stream_name].health.state = "Paused"]
                          ELSE mgr_streams
        /\ last' = Call("pause_stream", stream_name, gst_ok,
                        IF found /\ gst_ok THEN "Ok" ELSE "Stream")
        /\ UNCHANGED <<smVars, streams, active_sources, active_sinks, uuid_next,
                       max_streams, cbVars, mtVars, rmVars, now>>

\* StreamManager::resume_stream: the bin is set to Playing (gst_ok) and the
\* handle's health gets the state Running
ResumeStream(stream_name, gst_ok) ==
    LET found == stream_name \in DOMAIN mgr_streams
    IN  /\ mgr_streams' = IF found /\ gst_ok
                          THEN [mgr_streams EXCEPT ![stream_name].health.state = "Running"]
                          ELSE mgr_streams
        /\ last' = Call("resume_stream", stream_name, gst_ok,
                        IF found /\ gst_ok THEN "Ok" ELSE "Stream")
        /\ UNCHANGED <<smVars, streams, active_sources, active_sinks, uuid_next,
                       max_streams, cbVars, mtVars, rmVars, now>>

\* StreamManager::reconnect_source: "Stream" when the id holds no source,
\* else the error of disconnect() or of connect(), else Ok
reconnect_source(sources, stream_name, disconnect_ok, connect_ok) ==
    IF stream_name \notin sources THEN "Stream"
    ELSE IF ~disconnect_ok THEN "Source"
    ELSE IF ~connect_ok THEN "Network"
    ELSE "Ok"

\* a handle_stream_error that still reconnects at the ErrorBudget-th error
handle_error_health_at_budget(health, reconnected) ==
    LET counted == [health EXCEPT !.consecutive_errors = @ + 1]
    IN  IF counted.consecutive_errors <= ErrorBudget
        THEN IF reconnected = "Ok"
             THEN [counted EXCEPT !.state = "Running", !.recovery_attempts = @ + 1]
             ELSE [counted EXCEPT !.state = "Failed"]
        ELSE [counted EXCEPT !.state = "Failed"]

\* handle_stream_error applied to the handle's health: the error is counted;
\* under ErrorBudget consecutive errors the stream is Recovering while the
\* source reconnects and then Running (recovery_attempts + 1) or Failed;
\* from ErrorBudget on it is Failed
handle_error_health(health, reconnected) ==
    LET counted == [health EXCEPT !.consecutive_errors = @ + 1]
    IN  IF counted.consecutive_errors < ErrorBudget
        THEN IF reconnected = "Ok"
             THEN [counted EXCEPT !.state = "Running", !.recovery_attempts = @ + 1]
             ELSE [counted EXCEPT !.state = "Failed"]
        ELSE [counted EXCEPT !.state = "Failed"]

\* StreamManager::handle_stream_error(stream_name, error)
HandleStreamError(stream_name, disconnect_ok, connect_ok) ==
    LET found == stream_name \in DOMAIN mgr_streams
        reconnected == reconnect_source(active_sources, stream_name, disconnect_ok, connect_ok)
        health == handle_error_health(mgr_streams[stream_name].health, reconnected)
        tried == health.consecutive_errors < ErrorBudget
    IN  /\ found => mgr_streams[stream_name].health.consecutive_errors < MaxStreamErrors
        /\ mgr_streams' = IF found
                          THEN [mgr_streams EXCEPT ![stream_name].health = health]
                          ELSE mgr_streams
        /\ last' = Call("handle_stream_error", stream_name,
                        [disconnect_ok |-> found /\ tried => disconnect_ok,
                         connect_ok |-> found /\ tried /\ disconnect_ok => connect_ok],
                        IF ~found THEN "Stream"
                        ELSE IF tried THEN reconnected
                        ELSE "RecoveryFailed")
        /\ UNCHANGED <<smVars, streams, active_sources, active_sinks, uuid_next,
                       max_streams, cbVars, mtVars, rmVars, now>>

----------------------------------------------------------------------------
(* Calls that overlap: the methods take &self and synchronise only on the   *)
(* DashMap and on the mutexes inside it, so a call is a sequence of steps,  *)
(* one per map operation or mutex section.                                  *)

\* the caller threads
Threads == {"t1", "t2"}

\* a thread that is in no call
Idle == [pc |-> "idle", op |-> None, name |-> None, t |-> 0]

\* the names concurrent callers give their streams
MtNames == {"cam1", "cam2"}

\* add_stream up to the insert: the max_streams check against streams.len(),
\* pipeline.add (add_ok) and the StreamInfo built with Instant::now()
AddStreamCheck(th, name, add_ok) ==
    /\ threads[th].pc = "idle"
    /\ IF Cardinality(DOMAIN streams) >= max_streams
       THEN /\ last' = Call("add_stream", name, add_ok, "ResourceExhaustion")
            /\ UNCHANGED threads
       ELSE IF ~add_ok
       THEN /\ last' = Call("add_stream", name, add_ok, "Pipeline")
            /\ UNCHANGED threads
       ELSE /\ threads' = [threads EXCEPT ![th] =
                              [pc |-> "insert", op |-> "add_stream", name |-> name, t |-> now]]
            /\ last' = Call("add_stream_check", name, None, None)
    /\ UNCHANGED <<smVars, plVars, cbVars, rmVars, watchdog, event_log, xVars, now>>

\* add_stream: self.streams.insert
AddStreamInsert(th) ==
    /\ threads[th].pc = "insert"
    /\ streams' = insert(streams, threads[th].name, StreamInfo_new(threads[th].t))
    /\ threads' = [threads EXCEPT ![th].pc = "transition"]
    /\ last' = Call("add_stream_insert", threads[th].name, None, None)
    /\ UNCHANGED <<smVars, mgr_streams, active_sources, active_sinks, uuid_next,
                   max_streams, cbVars, rmVars, watchdog, event_log, xVars, now>>

\* add_stream: the OnSuccess transition under the state machine's mutex, and
\* the return
AddStreamTransition(th) ==
    /\ threads[th].pc = "transition"
    /\ states' = transition(states, threads[th].name, "OnSuccess").states
    /\ threads' = [threads EXCEPT ![th] = Idle]
    /\ last' = Call("add_stream", threads[th].name, TRUE, "Ok")
    /\ UNCHANGED <<plVars, cbVars, rmVars, watchdog, event_log, xVars, now>>

\* the StreamMetrics handed to update_stream_metrics
MetricsValues == {[frames_processed |-> 1]}

\* the main loop runs one callback at a time: the bus watch (op = "feed")
\* and the watchdog callback never overlap
MainLoopFree ==
    /\ watchdog.pc = "idle"
    /\ \A th \in Threads : threads[th].op # "feed"

\* WatchdogTimer::feed up to the write (op = "feed", from the bus watch), or
\* update_stream_metrics (op = "update_stream_metrics", from any thread),
\* which first stores the metrics under the health mutex. feed looks the
\* stream up, then evaluates Instant::now(), the right-hand side of the
\* assignment, before it takes the last_activity mutex.
FeedNow(th, op, name, metrics) ==
    /\ threads[th].pc = "idle"
    /\ watchdog.enabled
    /\ op = "feed" => MainLoopFree
    /\ IF name \in DOMAIN streams
       THEN /\ threads' = [threads EXCEPT ![th] =
                              [pc |-> "feed_write", op |-> op, name |-> name, t |-> now]]
            /\ streams' = IF op = "update_stream_metrics"
                          THEN [streams EXCEPT ![name].health.metrics = metrics]
                          ELSE streams
            /\ last' = Call("feed_now", name, None, None)
       ELSE /\ last' = Call(op, name, None, None)
            /\ UNCHANGED <<threads, streams>>
    /\ UNCHANGED <<smVars, mgr_streams, active_sources, active_sinks, uuid_next,
                   max_streams, cbVars, rmVars, watchdog, event_log, xVars, now>>

\* WatchdogTimer::feed: the write of last_activity under its mutex, and the
\* return
FeedWrite(th) ==
    /\ threads[th].pc = "feed_write"
    /\ streams' = [streams EXCEPT ![threads[th].name].last_activity = threads[th].t]
    /\ threads' = [threads EXCEPT ![th] = Idle]
    /\ last' = Call(threads[th].op, threads[th].name, None, threads[th].t)
    /\ UNCHANGED <<smVars, mgr_streams, active_sources, active_sinks, uuid_next,
                   max_streams, cbVars, rmVars, watchdog, event_log, xVars, now>>

\* WatchdogTimer::new, with config.enable_watchdog
WatchdogTimer_new(enabled, timeout) ==
    [enabled |-> enabled, timeout |-> timeout, running |-> FALSE,
     pc |-> "idle", now |-> 0, todo |-> {}, cur |-> None]

\* Instant::duration_since: zero when the earlier instant is the later one
duration_since(t, earlier) == IF t >= earlier THEN t - earlier ELSE 0

\* what an expired watchdog writes into the StreamHealth
expire_health(health) ==
    [health EXCEPT !.consecutive_errors = @ + 1,
                   !.state = IF @ = "Running" THEN "Recovering" ELSE @]

\* RobustPipeline::start: WatchdogTimer::start sets running and installs the
\* one-second callback
WatchdogStart ==
    /\ watchdog.enabled /\ ~watchdog.running
    /\ watchdog' = [watchdog EXCEPT !.running = TRUE]
    /\ last' = Call("start", None, None, "Ok")
    /\ UNCHANGED <<smVars, plVars, cbVars, rmVars, threads, event_log, xVars, now>>

\* the watchdog callback fires: running is checked, Instant::now() is read
\* and the iteration over the streams begins
WatchdogTick ==
    /\ watchdog.running /\ MainLoopFree
    /\ \A n \in DOMAIN streams : streams[n].health.consecutive_errors < MaxConsecutiveErrors
    /\ watchdog' = [watchdog EXCEPT !.pc = "scan", !.now = now, !.todo = DOMAIN streams]
    /\ last' = Call("watchdog_tick", None, None, None)
    /\ UNCHANGED <<smVars, plVars, cbVars, rmVars, threads, event_log, xVars, now>>

\* the callback reads the last_activity of the next entry (in any order) and
\* compares it with the timeout
WatchdogCheck(name) ==
    /\ watchdog.pc = "scan" /\ name \in watchdog.todo
    /\ LET expired == duration_since(watchdog.now, streams[name].last_activity)
                          > watchdog.timeout
       IN  /\ watchdog' = IF expired
                          THEN [watchdog EXCEPT !.pc = "write", !.cur = name]
                          ELSE [watchdog EXCEPT !.todo = @ \ {name}]
           /\ last' = Call("watchdog_check", name, None, expired)
    /\ UNCHANGED <<smVars, plVars, cbVars, rmVars, threads, event_log, xVars, now>>

\* the callback takes the health mutex of the expired entry and writes
WatchdogWrite ==
    /\ watchdog.pc = "write"
    /\ streams' = [streams EXCEPT ![watchdog.cur].health = expire_health(@)]
    /\ watchdog' = [watchdog EXCEPT !.pc = "scan", !.todo = @ \ {watchdog.cur},
                                    !.cur = None]
    /\ last' = Call("watchdog_write", watchdog.cur, None, None)
    /\ UNCHANGED <<smVars, mgr_streams, active_sources, active_sinks, uuid_next,
                   max_streams, cbVars, rmVars, threads, event_log, xVars, now>>

\* the iteration is over and the callback returns Continue
WatchdogDone ==
    /\ watchdog.pc = "scan" /\ watchdog.todo = {}
    /\ watchdog' = [watchdog EXCEPT !.pc = "idle"]
    /\ last' = Call("watchdog_done", None, None, None)
    /\ UNCHANGED <<smVars, plVars, cbVars, rmVars, threads, event_log, xVars, now>>

\* WatchdogTimer::start (from RobustPipeline::start) and
\* HealthMonitor::start_monitoring: running is set and glib::timeout_add
\* installs one more callback, first due one period from now
TimerStart(c) ==
    /\ timers[c].installed < MaxTimerStarts
    /\ timers' = [timers EXCEPT ![c] =
                     [running |-> TRUE,
                      sources |-> insert(@.sources, @.installed + 1, now + TimerPeriod),
                      installed |-> @.installed + 1]]
    /\ last' = Call("start", c, None, "Ok")
    /\ UNCHANGED <<smVars, plVars, cbVars, rmVars, threads, watchdog, event_log,
                   isolated, rtsp, xr_trace, monitor, procs, now>>

\* WatchdogTimer::stop (from RobustPipeline::stop) and
\* HealthMonitor::stop_monitoring: running is cleared, nothing else
TimerStop(c) ==
    /\ timers' = [timers EXCEPT ![c].running = FALSE]
    /\ last' = Call("stop", c, None, "Ok")
    /\ UNCHANGED <<smVars, plVars, cbVars, rmVars, threads, watchdog, event_log,
                   isolated, rtsp, xr_trace, monitor, procs, now>>

\* an installed callback is due and runs: with running cleared it returns
\* Break and is removed; otherwise it makes its pass (the watchdog's pass
\* writes the health of every stream whose last_activity has expired),
\* returns Continue and is due again one period later
TimerFire(c, id) ==
    /\ id \in DOMAIN timers[c].sources
    /\ now >= timers[c].sources[id]
    /\ IF ~timers[c].running
       THEN /\ timers' = [timers EXCEPT ![c].sources = remove(@, id)]
            /\ last' = Call("timer_fire", c, id, "Break")
            /\ UNCHANGED streams
       ELSE /\ timers' = [timers EXCEPT ![c].sources[id] = now + TimerPeriod]
            /\ streams' =
                  IF c = "watchdog"
                  THEN [n \in DOMAIN streams |->
                          IF duration_since(now, streams[n].last_activity) > watchdog.timeout
                          THEN [streams[n] EXCEPT !.health = expire_health(@)]
                          ELSE streams[n]]
                  ELSE streams
            /\ last' = Call("timer_fire", c, id, "Continue")
    /\ UNCHANGED <<smVars, mgr_streams, active_sources, active_sinks, uuid_next,
                   max_streams, cbVars, rmVars, threads, watchdog, event_log,
                   isolated, rtsp, xr_trace, monitor, procs, now>>

----------------------------------------------------------------------------
(* Locks. Every call is followed through the locks it takes and releases,  *)
(* in the order of its code, and through the points where it suspends. The  *)
(* state machine, each StreamHealth and each last_activity sit behind a     *)
(* std::sync::Mutex; every shard of a DashMap sits behind a read-write       *)
(* lock: get and iter hold it for reading as long as the reference lives,   *)
(* get_mut, insert and remove take it for writing.                          *)

\* the threads that take locks: the callers and the main-loop thread, which
\* runs the timer callbacks and the bus watch one at a time
Procs == Threads \cup {"main"}

\* the streams the calls are about
LkNames == {"cam1", "cam2"}

\* a thread that is in no call
IdleCall == [op |-> None, prog |-> <<>>, ip |-> 1, held |-> {}]

\* the steps of a call: Mutex::lock and the drop of its guard, the read and
\* write locks of a shard, and an .await on a source or a sink
Lock(m, k) == <<"lock", m, k>>
Unlock(m, k) == <<"unlock", m, k>>
Read(map, shard) == <<"read", map, shard>>
Unread(map, shard) == <<"unread", map, shard>>
WLock(map, shard) == <<"wlock", map, shard>>
WUnlock(map, shard) == <<"wunlock", map, shard>>
Await(what) == <<"await", what, None>>

\* the shard of a key, and the shards of a map in the order iter() and len()
\* visit them
shard_of(name) == procs.shards[name]
shard_seq == IF procs.shards["cam1"] = procs.shards["cam2"] THEN <<"s0">> ELSE <<"s0", "s1">>

\* DashMap::iter with the loop body `body` run on every entry: the read lock
\* of a shard is held while its entries are visited and released before the
\* next shard is locked
iter_locks(map, body(_)) ==
    IF Len(shard_seq) = 1
    THEN <<Read(map, "s0")>> \o body("cam1") \o body("cam2") \o <<Unread(map, "s0")>>
    ELSE <<Read(map, "s0")>> \o body("cam1") \o <<Unread(map, "s0"), Read(map, "s1")>>
            \o body("cam2") \o <<Unread(map, "s1")>>

\* DashMap::len: every shard is read-locked in turn
len_locks(map) ==
    IF Len(shard_seq) = 1
    THEN <<Read(map, "s0"), Unread(map, "s0")>>
    ELSE <<Read(map, "s0"), Unread(map, "s0"), Read(map, "s1"), Unread(map, "s1")>>

\* RobustPipeline::trigger_recovery, on the path that takes every lock: the
\* state machine is locked for the whole call; inside, streams.get and the
\* health mutex
trigger_recovery_locks(name) ==
    <<Lock("state_machine", None), Read("streams", shard_of(name)),
      Lock("health", name), Unlock("health", name),
      Unread("streams", shard_of(name)), Unlock("state_machine", None)>>

\* an add_stream that keeps the shard locked for writing until the state
\* machine has made its transition
add_stream_locks_nested(name) ==
    len_locks("streams")
       \o <<WLock("streams", shard_of(name)),
            Lock("state_machine", None), Unlock("state_machine", None),
            WUnlock("streams", shard_of(name))>>

\* RobustPipeline::add_stream: streams.len(), streams.insert, then the state
\* machine once the insert has returned
add_stream_locks(name) ==
    len_locks("streams")
       \o <<WLock("streams", shard_of(name)), WUnlock("streams", shard_of(name)),
            Lock("state_machine", None), Unlock("state_machine", None)>>

\* RobustPipeline::remove_stream: streams.remove
remove_stream_locks(name) ==
    <<WLock("streams", shard_of(name)), WUnlock("streams", shard_of(name))>>

\* RobustPipeline::get_stream_health
get_stream_health_locks(name) ==
    <<Read("streams", shard_of(name)), Lock("health", name), Unlock("health", name),
      Unread("streams", shard_of(name))>>

\* RobustPipeline::update_stream_metrics: MetricsCollector::update_metrics,
\* then WatchdogTimer::feed
update_stream_metrics_locks(name) ==
    <<Read("streams", shard_of(name)), Lock("health", name), Unlock("health", name),
      Unread("streams", shard_of(name)),
      Read("streams", shard_of(name)), Lock("last_activity", name),
      Unlock("last_activity", name), Unread("streams", shard_of(name))>>

\* the body of the watchdog's loop for an entry that has expired: the guard
\* of last_activity is dropped at the end of its statement, then health
watchdog_entry_locks(name) ==
    <<Lock("last_activity", name), Unlock("last_activity", name),
      Lock("health", name), Unlock("health", name)>>

\* the watchdog callback
watchdog_tick_locks(name) == iter_locks("streams", watchdog_entry_locks)

\* the body of the metrics collector's loop
metrics_entry_locks(name) == <<Lock("health", name), Unlock("health", name)>>

\* the metrics-collector callback
metrics_tick_locks(name) == iter_locks("streams", metrics_entry_locks)

\* the bus watch on an error message
bus_error_locks(name) ==
    <<Lock("state_machine", None), Unlock("state_machine", None)>>

\* StreamManager::add_source from source.connect() on: the connect, then
\* RobustPipeline::add_stream and the two inserts
add_source_locks(name) ==
    <<Await("connect")>> \o add_stream_locks(name)
       \o <<WLock("mgr_streams", shard_of(name)), WUnlock("mgr_streams", shard_of(name)),
            WLock("active_sources", shard_of(name)),
            WUnlock("active_sources", shard_of(name))>>

\* StreamManager::add_sink: the reference `stream` returned by streams.get
\* lives until the function returns
add_sink_locks(name) ==
    <<Read("mgr_streams", shard_of(name)), Await("prepare"),
      WLock("active_sinks", shard_of(name)), WUnlock("active_sinks", shard_of(name)),
      Unread("mgr_streams", shard_of(name))>>

\* StreamManager::remove_source: active_sources.remove returns the source by
\* value, then disconnect, RobustPipeline::remove_stream and streams.remove
remove_source_locks(name) ==
    <<WLock("active_sources", shard_of(name)), WUnlock("active_sources", shard_of(name)),
      Await("disconnect")>>
       \o remove_stream_locks(name)
       \o <<WLock("mgr_streams", shard_of(name)), WUnlock("mgr_streams", shard_of(name))>>

\* StreamManager::reconnect_source: the RefMut returned by
\* active_sources.get_mut lives through both awaits
reconnect_source_locks(name) ==
    <<WLock("active_sources", shard_of(name)), Await("disconnect"), Await("connect"),
      WUnlock("active_sources", shard_of(name))>>

\* StreamManager::handle_stream_error below the error budget: the reference
\* `stream` lives until the function returns; the health guard is dropped
\* before reconnect_source is awaited and taken again after it
handle_stream_error_locks(name) ==
    <<Read("mgr_streams", shard_of(name)),
      Lock("mgr_health", name), Unlock("mgr_health", name)>>
       \o reconnect_source_locks(name)
       \o <<Lock("mgr_health", name), Unlock("mgr_health", name),
            Unread("mgr_streams", shard_of(name))>>

\* StreamManager::pause_stream (resume_stream takes the same locks)
pause_stream_locks(name) ==
    <<Read("mgr_streams", shard_of(name)),
      Lock("mgr_health", name), Unlock("mgr_health", name),
      Unread("mgr_streams", shard_of(name))>>

\* the calls of the pipeline made by caller threads, and the callbacks the
\* main loop runs
PipelineOps == {"trigger_recovery", "add_stream", "remove_stream", "get_stream_health",
                "update_stream_metrics"}
MainLoopOps == {"watchdog_tick", "metrics_tick", "bus_error"}

\* the calls of the StreamManager
ManagerOps == {"add_source", "add_sink", "remove_source", "reconnect_source",
               "handle_stream_error", "pause_stream"}

\* the steps of a call
Program(op, name) ==
    CASE op = "trigger_recovery" -> trigger_recovery_locks(name)
      [] op = "add_stream" -> add_stream_locks(name)
      [] op = "remove_stream" -> remove_stream_locks(name)
      [] op = "get_stream_health" -> get_stream_health_locks(name)
      [] op = "update_stream_metrics" -> update_stream_metrics_locks(name)
      [] op = "watchdog_tick" -> watchdog_tick_locks(name)
      [] op = "metrics_tick" -> metrics_tick_locks(name)
      [] op = "bus_error" -> bus_error_locks(name)
      [] op = "add_source" -> add_source_locks(name)
      [] op = "add_sink" -> add_sink_locks(name)
      [] op = "remove_source" -> remove_source_locks(name)
      [] op = "reconnect_source" -> reconnect_source_locks(name)
      [] op = "handle_stream_error" -> handle_stream_error_locks(name)
      [] op = "pause_stream" -> pause_stream_locks(name)

\* a thread is in a call, and the step it is at
InCall(p) == procs.calls[p].op # None
Instr(p) == procs.calls[p].prog[procs.calls[p].ip]

\* the threads that hold a lock: a mutex, or a shard for reading or writing
Holders(kind, m, k) == {q \in Procs : <<kind, m, k>> \in procs.calls[q].held}

\* the threads waiting to lock a shard for writing
WaitingWriters(map, shard) ==
    {q \in Procs : /\ InCall(q)
                   /\ Instr(q) = WLock(map, shard)
                   /\ Holders("r", map, shard) \cup Holders("w", map, shard) # {}}

\* the threads that keep p from making its step: the holder of the mutex it
\* locks; for a read lock the writer, and with fair locks the writers that
\* wait; for a write lock the readers and the writer
Blockers(p) ==
    IF ~InCall(p) THEN {}
    ELSE LET i == Instr(p)
         IN  CASE i[1] = "lock" -> Holders("mutex", i[2], i[3])
               [] i[1] = "read" ->
                     Holders("w", i[2], i[3])
                        \cup (IF procs.fair THEN WaitingWriters(i[2], i[3]) \ {p} ELSE {})
               [] i[1] = "wlock" -> Holders("r", i[2], i[3]) \cup Holders("w", i[2], i[3])
               [] OTHER -> {}

Blocked(p) == Blockers(p) # {}

\* what a thread holds after the step i
held_after(held, i) ==
    CASE i[1] = "lock" -> held \cup {<<"mutex", i[2], i[3]>>}
      [] i[1] = "unlock" -> held \ {<<"mutex", i[2], i[3]>>}
      [] i[1] = "read" -> held \cup {<<"r", i[2], i[3]>>}
      [] i[1] = "unread" -> held \ {<<"r", i[2], i[3]>>}
      [] i[1] = "wlock" -> held \cup {<<"w", i[2], i[3]>>}
      [] i[1] = "wunlock" -> held \ {<<"w", i[2], i[3]>>}
      [] OTHER -> held

\* a thread enters a call
ProcBegin(p, op, name) ==
    /\ ~InCall(p)
    /\ procs' = [procs EXCEPT !.calls[p] =
                    [op |-> op, prog |-> Program(op, name), ip |-> 1, held |-> {}]]
    /\ last' = Call("lock_step", None, None, None)
    /\ UNCHANGED <<smVars, plVars, cbVars, rmVars, threads, watchdog, event_log,
                   isolated, rtsp, xr_trace, monitor, timers, now>>

\* a thread that is not kept waiting makes the next step of its call; after
\* the last step the call returns
ProcStep(p) ==
    /\ InCall(p) /\ ~Blocked(p)
    /\ LET c == procs.calls[p]
           held == held_after(c.held, Instr(p))
       IN  procs' = [procs EXCEPT !.calls[p] =
                        IF c.ip = Len(c.prog) THEN IdleCall
                        ELSE [c EXCEPT !.ip = @ + 1, !.held = held]]
    /\ last' = Call("lock_step", None, None, None)
    /\ UNCHANGED <<smVars, plVars, cbVars, rmVars, threads, watchdog, event_log,
                   isolated, rtsp, xr_trace, monitor, timers, now>>

\* no call holds a reference into the stream map: inserts and removals take
\* the write lock of the shard and wait for the readers
NoReaders ==
    /\ \A th \in Threads : threads[th].pc = "idle"
    /\ watchdog.pc = "idle"

\* RtspSourceRobust::with_config, with the retry_on_401 of its RtspConfig and
\* the max_attempts of its RetryConfig
RtspSourceRobust_new(retry_on_401, max_attempts) ==
    [state |-> "Idle", connection_state |-> "Disconnected", errors |-> 0,
     consecutive_failures |-> 0, total_reconnects |-> 0,
     retry_on_401 |-> retry_on_401, max_attempts |-> max_attempts]

\* no execute_recovery call has been made
XrTrace_new == [admitted |-> <<>>, stopped |-> {}, overlap |-> FALSE]

\* StreamIsolator::new: running is false and no monitor thread exists
Monitor_new == [running |-> FALSE, pc |-> "none", joining |-> FALSE]

\* the components that install a periodic callback with glib::timeout_add
TimerOwners == {"watchdog", "health_monitor"}

\* WatchdogTimer::new, HealthMonitor::new: running is false and no callback
\* is installed; sources maps each installed callback to the time it is due
Timer_new == [running |-> FALSE, sources |-> <<>>, installed |-> 0]

\* no call in progress on any thread; `shards` is the shard of its DashMap
\* each key hashes to, `fair` whether the shard locks let a waiting writer
\* go before new readers
Procs_new(shards, fair) ==
    [calls |-> [p \in Procs |-> IdleCall], shards |-> shards, fair |-> fair]

\* no monitor thread, no periodic callback installed, no call in progress
InitY ==
    /\ monitor = Monitor_new
    /\ timers = [c \in TimerOwners |-> Timer_new]
    /\ procs = Procs_new([n \in LkNames |-> "s0"], TRUE)

\* StreamIsolator::new, RtspSourceRobust::new (RtspConfig::default and
\* RetryConfig::default)
InitX ==
    /\ isolated = <<>>
    /\ rtsp = RtspSourceRobust_new(TRUE, 10)
    /\ xr_trace = XrTrace_new
    /\ InitY

\* PipelineConfig::default: the watchdog is enabled with a 10 s timeout
InitMT ==
    /\ threads = [th \in Threads |-> Idle]
    /\ watchdog = WatchdogTimer_new(TRUE, 10000)
    /\ event_log = <<>>
    /\ InitX

----------------------------------------------------------------------------
(* recovery: CircuitBreaker *)

CircuitState == {"Closed", "Open", "HalfOpen"}

\* CircuitBreaker::new
CircuitBreaker_new(config) ==
    [state |-> "Closed", failure_count |-> 0, success_count |-> 0,
     last_failure_time |-> NoInstant, config |-> config]

\* on_success that closes the breaker one success late
on_success_late(b) ==
    IF b.state = "HalfOpen"
    THEN IF b.success_count + 1 > b.config.success_threshold
         THEN [b EXCEPT !.state = "Closed", !.failure_count = 0, !.success_count = 0]
         ELSE [b EXCEPT !.success_count = @ + 1]
    ELSE IF b.state = "Closed"
    THEN [b EXCEPT !.failure_count = 0]
    ELSE b

\* CircuitBreaker::on_success
on_success(b) ==
    IF b.state = "HalfOpen"
    THEN IF b.success_count + 1 >= b.config.success_threshold
         THEN [b EXCEPT !.state = "Closed", !.failure_count = 0, !.success_count = 0]
         ELSE [b EXCEPT !.success_count = @ + 1]
    ELSE IF b.state = "Closed"
    THEN [b EXCEPT !.failure_count = 0]
    ELSE b

\* on_failure that trips only above the threshold
on_failure_late(b, t) ==
    LET b1 == [b EXCEPT !.last_failure_time = Some(t)]
    IN  IF b.state = "Closed"
        THEN IF b.failure_count + 1 > b.config.failure_threshold
             THEN [b1 EXCEPT !.failure_count = @ + 1, !.state = "Open"]
             ELSE [b1 EXCEPT !.failure_count = @ + 1]
        ELSE IF b.state = "HalfOpen"
        THEN [b1 EXCEPT !.state = "Open", !.failure_count = 0, !.success_count = 0]
        ELSE b1

\* CircuitBreaker::on_failure at time t
on_failure(b, t) ==
    LET b1 == [b EXCEPT !.last_failure_time = Some(t)]
    IN  IF b.state = "Closed"
        THEN IF b.failure_count + 1 >= b.config.failure_threshold
             THEN [b1 EXCEPT !.failure_count = @ + 1, !.state = "Open"]
             ELSE [b1 EXCEPT !.failure_count = @ + 1]
        ELSE IF b.state = "HalfOpen"
        THEN [b1 EXCEPT !.state = "Open", !.failure_count = 0, !.success_count = 0]
        ELSE b1

\* CircuitBreaker::should_allow_request at time t: the breaker after the call
\* and the value returned
should_allow_request(b, t) ==
    IF b.state = "Closed"
    THEN [breaker |-> b, ret |-> TRUE]
    ELSE IF b.state = "Open"
    THEN IF b.last_failure_time # NoInstant
            /\ t - b.last_failure_time[1] > b.config.timeout
         THEN [breaker |-> [b EXCEPT !.state = "HalfOpen", !.success_count = 0],
               ret |-> TRUE]
         ELSE [breaker |-> b, ret |-> FALSE]
    ELSE [breaker |-> b, ret |-> b.success_count < b.config.half_open_attempts]

\* the breaker part of RecoveryManager::reset_stream_state
reset_breaker(b) ==
    [b EXCEPT !.state = "Closed", !.failure_count = 0, !.success_count = 0]

\* History of the unit-level breaker: only_failures counts the on_failure
\* calls while nothing but on_failure has been called since new (-1 after
\* any other call); half_open_successes counts the on_success calls made in
\* HalfOpen since the breaker last entered HalfOpen.
CbTrace_new == [only_failures |-> 0, half_open_successes |-> 0]

\* a direct call of on_success
CB_on_success ==
    /\ breaker' = on_success(breaker)
    /\ cb_trace' = [only_failures |-> -1,
                    half_open_successes |->
                        IF breaker.state = "HalfOpen"
                        THEN cb_trace.half_open_successes + 1
                        ELSE cb_trace.half_open_successes]
    /\ last' = Call("on_success", None, None, None)
    /\ UNCHANGED <<smVars, plVars, rmVars, mtVars, now>>

\* a direct call of on_failure
CB_on_failure ==
    /\ cb_trace.only_failures < MaxFailures
    /\ breaker' = on_failure(breaker, now)
    /\ cb_trace' = [cb_trace EXCEPT !.only_failures = IF @ = -1 THEN -1 ELSE @ + 1]
    /\ last' = Call("on_failure", None, None, None)
    /\ UNCHANGED <<smVars, plVars, rmVars, mtVars, now>>

\* a direct call of should_allow_request
CB_should_allow_request ==
    LET r == should_allow_request(breaker, now)
    IN  /\ breaker' = r.breaker
        /\ cb_trace' = [only_failures |-> -1,
                        half_open_successes |->
                            IF breaker.state # "HalfOpen" /\ r.breaker.state = "HalfOpen"
                            THEN 0 ELSE cb_trace.half_open_successes]
        /\ last' = Call("should_allow_request", None, None, r.ret)
        /\ UNCHANGED <<smVars, plVars, rmVars, mtVars, now>>

\* reset_stream_state applied to the breaker
CB_reset ==
    /\ breaker' = reset_breaker(breaker)
    /\ cb_trace' = [cb_trace EXCEPT !.only_failures = -1]
    /\ last' = Call("reset_stream_state", None, None, None)
    /\ UNCHANGED <<smVars, plVars, rmVars, mtVars, now>>

\* time passes: the clock moves on by d, while it is before max
Tick(d, max) ==
    /\ now < max
    /\ now' = now + d
    /\ last' = Call("tick", None, d, None)
    /\ UNCHANGED <<smVars, plVars, cbVars, mtVars, rmVars>>

\* a period passes, once every callback that was due has run
TimerTick ==
    /\ \A c \in TimerOwners : \A id \in DOMAIN timers[c].sources :
          timers[c].sources[id] > now
    /\ Tick(TimerPeriod, TkMaxTime)

----------------------------------------------------------------------------
(* core: RetryConfig, RecoveryAction, DslError; recovery: RecoveryManager *)

RecoveryAction == {"Retry", "Restart", "Replace", "Remove", "Ignore", "Escalate"}

\* the kinds of DslError handed to execute_recovery in the model
ErrorKinds == {"Network", "ResourceExhaustion", "Configuration"}

\* RetryConfig::default
RetryConfig_default ==
    [max_attempts |-> 10, initial_delay |-> 100, max_delay |-> 30000,
     exponential_base |-> 2, jitter |-> TRUE]

\* DefaultRecoveryStrategy::new
DefaultRecoveryStrategy_new(max_attempts, base_delay) ==
    [kind |-> "Default", max_attempts |-> max_attempts, base_delay |-> base_delay,
     action |-> None]

\* a RecoveryStrategy written by the caller that always decides `action` and
\* always waits `delay`
ConstantStrategy(action, delay) ==
    [kind |-> "Constant", max_attempts |-> 0, base_delay |-> delay, action |-> action]

NoStrategy == [kind |-> None, max_attempts |-> 0, base_delay |-> 0, action |-> None]

\* RecoveryStrategy::decide_action
decide_action(strategy, error, attempt) ==
    IF strategy.kind = "Default"
    THEN IF attempt < strategy.max_attempts THEN "Retry" ELSE "Escalate"
    ELSE strategy.action

\* RecoveryStrategy::calculate_delay
calculate_delay(strategy, attempt) ==
    IF strategy.kind = "Default"
    THEN strategy.base_delay * attempt
    ELSE strategy.base_delay

\* RecoveryPolicy
BuiltinPolicy(kind) == [kind |-> kind, strategy |-> NoStrategy]
Custom(strategy) == [kind |-> "Custom", strategy |-> strategy]

\* Clone for Box<dyn RecoveryStrategy>: whatever the strategy, the clone is
\* DefaultRecoveryStrategy::new(10, 100 ms)
clone_strategy(strategy) == DefaultRecoveryStrategy_new(10, 100)

\* the derived Clone of RecoveryPolicy
clone_policy(policy) ==
    IF policy.kind = "Custom"
    THEN Custom(clone_strategy(policy.strategy))
    ELSE policy

Min(a, b) == IF a <= b THEN a ELSE b

Max(a, b) == IF a >= b THEN a ELSE b

\* A u32 too large for one machine integer of the checker is held as its top
\* bit and its low 31 bits: the value is top * 2^31 + low.
u32(n) == [top |-> 0, low |-> n]

\* acc * b^n, or any value >= cap once the product has reached cap
RECURSIVE PowAcc(_, _, _, _)
PowAcc(acc, b, n, cap) ==
    IF n = 0 \/ acc >= cap THEN acc ELSE PowAcc(acc * b, b, n - 1, cap)

\* f64::powi(b, attempt as i32) for a whole base b >= 1, as a fraction
\* num / den. The cast reinterprets the u32: with the top bit set the
\* exponent is low - 2^31, a negative number, and powi returns the
\* reciprocal 1 / b^(2^31 - low). A power is followed only until it reaches
\* cap: beyond it the clamp (or the cut to whole ms) gives the same result.
powi(b, attempt, cap) ==
    IF b = 1
    THEN [num |-> 1, den |-> 1]
    ELSE IF attempt.top = 0
    THEN [num |-> PowAcc(1, b, attempt.low, cap), den |-> 1]
    ELSE [num |-> 1, den |-> PowAcc(b, b, 2147483647 - attempt.low, cap)]

\* RecoveryManager::calculate_exponential_delay, in whole ms, for the u32
\* attempt. rand() returned r / RandDen; the jitter is
\* clamped * 0.2 * (2 * rand - 1), so the delay is
\* clamped * (4 * RandDen + 2 * r) / (5 * RandDen), cut to an integer by the
\* cast to u64
calculate_exponential_delay(config, attempt, r) ==
    LET cap == Max(config.max_delay, 2 * config.initial_delay) + 1
        p == powi(config.exponential_base, attempt, cap)
        exp_num == config.initial_delay * p.num
        exp_den == p.den
        below == exp_num <= config.max_delay * exp_den
        c_num == IF below THEN exp_num ELSE config.max_delay
        c_den == IF below THEN exp_den ELSE 1
    IN  IF config.jitter
        THEN (c_num * (4 * RandDen + 2 * r)) \div (c_den * 5 * RandDen)
        ELSE c_num \div c_den

\* record_failure that keeps one entry more
record_failure_one_more(history, stream_name, error, t) ==
    LET pushed == Append(history,
                         [timestamp |-> t, error_type |-> error, stream_name |-> stream_name])
    IN  IF Len(pushed) > HistoryCap + 1
        THEN SubSeq(pushed, Len(pushed) - HistoryCap, Len(pushed))
        ELSE pushed

\* RecoveryManager::record_failure at time t: push_back, then pop_front while
\* more than HistoryCap entries are held
record_failure(history, stream_name, error, t) ==
    LET pushed == Append(history,
                         [timestamp |-> t, error_type |-> error, stream_name |-> stream_name])
    IN  IF Len(pushed) > HistoryCap
        THEN SubSeq(pushed, Len(pushed) - HistoryCap + 1, Len(pushed))
        ELSE pushed

\* RecoveryTelemetry::record_recovery
record_recovery(tel, duration, success) ==
    [tel EXCEPT !.total_recoveries = IF success THEN @ + 1 ELSE @,
                !.failed_recoveries = IF success THEN @ ELSE @ + 1,
                !.recovery_times = Append(@, duration)]

\* RecoveryTelemetry::record_circuit_trip
record_circuit_trip(tel) ==
    [tel EXCEPT !.circuit_trips = @ + 1]

\* should_attempt_recovery that lets every call through
should_attempt_recovery_open_gate(cbs, stream_name, t) ==
    [circuit_breakers |-> cbs, ret |-> TRUE]

\* RecoveryManager::should_attempt_recovery at time t: the breakers after the
\* call and the value returned
should_attempt_recovery(cbs, stream_name, t) ==
    IF stream_name \in DOMAIN cbs
    THEN LET r == should_allow_request(cbs[stream_name], t)
         IN  [circuit_breakers |-> [cbs EXCEPT ![stream_name] = r.breaker],
              ret |-> r.ret]
    ELSE [circuit_breakers |-> cbs, ret |-> TRUE]

\* the policy match of execute_recovery: the action chosen and the time slept
select_action(policy, config, error, attempt, r) ==
    IF policy.kind = "Immediate"
    THEN [action |-> "Retry", delay |-> 0]
    ELSE IF policy.kind = "FixedDelay"
    THEN [action |-> "Retry", delay |-> FixedDelayMs]
    ELSE IF policy.kind = "Exponential"
    THEN [action |-> IF attempt >= config.max_attempts THEN "Escalate" ELSE "Retry",
          delay |-> calculate_exponential_delay(config, u32(attempt), r)]
    ELSE [action |-> decide_action(policy.strategy, error, attempt),
          delay |-> calculate_delay(policy.strategy, attempt)]

\* a success test that forgets Escalate
recovery_success_forgets_escalate(action) == action # "Remove"

\* the success flag of execute_recovery
recovery_success(action) == action \notin {"Escalate", "Remove"}

\* RecoveryManager::set_policy
SetPolicy(stream_name, policy) ==
    /\ Len(telemetry.recovery_times) = 0
    /\ policies' = insert(policies, stream_name, policy)
    /\ last' = Call("set_policy", stream_name, policy, None)
    /\ UNCHANGED <<smVars, plVars, cbVars, mtVars, circuit_breakers, retry_configs,
                   failure_history, telemetry, now>>

\* RecoveryManager::set_retry_config
SetRetryConfig(stream_name, config) ==
    /\ Len(telemetry.recovery_times) = 0
    /\ retry_configs' = insert(retry_configs, stream_name, config)
    /\ last' = Call("set_retry_config", stream_name, config, None)
    /\ UNCHANGED <<smVars, plVars, cbVars, mtVars, policies, circuit_breakers,
                   failure_history, telemetry, now>>

\* RecoveryManager::enable_circuit_breaker
EnableCircuitBreaker(stream_name, config) ==
    /\ Len(telemetry.recovery_times) = 0
    /\ circuit_breakers' = insert(circuit_breakers, stream_name, CircuitBreaker_new(config))
    /\ last' = Call("enable_circuit_breaker", stream_name, config, None)
    /\ UNCHANGED <<smVars, plVars, cbVars, mtVars, policies, retry_configs,
                   failure_history, telemetry, now>>

\* RecoveryManager::reset_stream_state
ResetStreamState(stream_name) ==
    /\ circuit_breakers' =
          IF stream_name \in DOMAIN circuit_breakers
          THEN [circuit_breakers EXCEPT ![stream_name] = reset_breaker(@)]
          ELSE circuit_breakers
    /\ last' = Call("reset_stream_state", stream_name, None, None)
    /\ UNCHANGED <<smVars, plVars, cbVars, mtVars, policies, retry_configs,
                   failure_history, telemetry, now>>

\* RecoveryManager::execute_recovery(stream_name, error, attempt), with rand()
\* returning r / RandDen where it is called (an admitted call under the
\* Exponential policy with jitter): the breaker check, record_failure, the policy match
\* with its sleep, the telemetry and the breaker update
ExecuteRecovery(stream_name, error, attempt, r) ==
    LET start_time == now
        gate == should_attempt_recovery(circuit_breakers, stream_name, now)
        policy == IF stream_name \in DOMAIN policies
                  THEN clone_policy(policies[stream_name])
                  ELSE BuiltinPolicy("Exponential")
        config == IF stream_name \in DOMAIN retry_configs
                  THEN retry_configs[stream_name]
                  ELSE RetryConfig_default
        sel == select_action(policy, config, error, attempt, r)
        woke == now + sel.delay
        success == recovery_success(sel.action)
        tel == record_recovery(telemetry, woke - start_time, success)
        has_breaker == stream_name \in DOMAIN circuit_breakers
        b == IF success
             THEN on_success(gate.circuit_breakers[stream_name])
             ELSE on_failure(gate.circuit_breakers[stream_name], woke)
        drawn == gate.ret /\ policy.kind = "Exponential" /\ config.jitter
        args == [error |-> error, attempt |-> attempt,
                 r |-> IF drawn THEN r ELSE 0, admitted |-> gate.ret]
    IN  IF ~gate.ret
        THEN /\ circuit_breakers' = gate.circuit_breakers
             /\ last' = Call("execute_recovery", stream_name, args, "Escalate")
             /\ UNCHANGED <<smVars, plVars, cbVars, mtVars, policies, retry_configs,
                            failure_history, telemetry, now>>
        ELSE /\ Len(telemetry.recovery_times) < MaxCalls
             /\ failure_history' = record_failure(failure_history, stream_name, error, now)
             /\ now' = woke
             /\ circuit_breakers' =
                   IF has_breaker
                   THEN [gate.circuit_breakers EXCEPT ![stream_name] = b]
                   ELSE gate.circuit_breakers
             /\ telemetry' =
                   IF has_breaker /\ ~success /\ b.state = "Open"
                   THEN record_circuit_trip(tel)
                   ELSE tel
             /\ last' = Call("execute_recovery", stream_name, args, sel.action)
             /\ UNCHANGED <<smVars, plVars, cbVars, mtVars, policies, retry_configs>>

\* execute_recovery up to its sleep, made by a caller thread: the breaker
\* check (its mutex is released when should_attempt_recovery returns),
\* record_failure, the policy match and the delay; the thread then sleeps
\* until now + delay. xr_trace notes how many calls were admitted since the
\* breaker entered HalfOpen, and whether two calls were ever in flight at once.
ExecuteRecoveryBegin(th, stream_name, error, attempt, r) ==
    LET gate == should_attempt_recovery(circuit_breakers, stream_name, now)
        policy == IF stream_name \in DOMAIN policies
                  THEN clone_policy(policies[stream_name])
                  ELSE BuiltinPolicy("Exponential")
        config == IF stream_name \in DOMAIN retry_configs
                  THEN retry_configs[stream_name]
                  ELSE RetryConfig_default
        sel == select_action(policy, config, error, attempt, r)
        has_breaker == stream_name \in DOMAIN circuit_breakers
        half_open == has_breaker /\ gate.circuit_breakers[stream_name].state = "HalfOpen"
        entered == half_open /\ circuit_breakers[stream_name].state # "HalfOpen"
        before == IF stream_name \in DOMAIN xr_trace.admitted
                  THEN xr_trace.admitted[stream_name] ELSE 0
        in_flight == {t \in Threads : threads[t].pc = "sleep"}
        drawn == gate.ret /\ policy.kind = "Exponential" /\ config.jitter
    IN  /\ threads[th].pc = "idle"
        /\ r # 0 => drawn
        /\ circuit_breakers' = gate.circuit_breakers
        /\ IF ~gate.ret
           THEN /\ last' = Call("execute_recovery", stream_name,
                                [admitted |-> FALSE, stopped |-> FALSE, slept |-> 0,
                                 delay |-> 0], "Escalate")
                /\ UNCHANGED <<threads, xr_trace, failure_history>>
           ELSE /\ Len(telemetry.recovery_times) + Cardinality(in_flight) < MaxXrCalls
                /\ failure_history' = record_failure(failure_history, stream_name, error, now)
                /\ threads' = [threads EXCEPT ![th] =
                                  [pc |-> "sleep", op |-> "execute_recovery",
                                   name |-> stream_name, t |-> now + sel.delay,
                                   start |-> now, action |-> sel.action]]
                /\ xr_trace' = [xr_trace EXCEPT
                                   !.admitted = insert(@, stream_name,
                                                       IF entered THEN 1
                                                       ELSE IF half_open THEN before + 1
                                                       ELSE 0),
                                   !.overlap = @ \/ in_flight # {}]
                /\ last' = Call("execute_recovery_admitted", stream_name,
                                [error |-> error, attempt |-> attempt], None)
        /\ UNCHANGED <<smVars, plVars, cbVars, policies, retry_configs, telemetry,
                       watchdog, event_log, isolated, rtsp, yVars, now>>

\* execute_recovery from the end of its sleep: std::thread::sleep returns
\* when the delay has passed; then the telemetry and the breaker are updated
\* and the action is returned
ExecuteRecoveryEnd(th) ==
    LET call == threads[th]
        stream_name == call.name
        success == recovery_success(call.action)
        tel == record_recovery(telemetry, now - call.start, success)
        has_breaker == stream_name \in DOMAIN circuit_breakers
        b == IF success
             THEN on_success(circuit_breakers[stream_name])
             ELSE on_failure(circuit_breakers[stream_name], now)
    IN  /\ call.pc = "sleep"
        /\ now >= call.t
        /\ circuit_breakers' =
              IF has_breaker THEN [circuit_breakers EXCEPT ![stream_name] = b]
              ELSE circuit_breakers
        /\ telemetry' =
              IF has_breaker /\ ~success /\ b.state = "Open"
              THEN record_circuit_trip(tel)
              ELSE tel
        /\ threads' = [threads EXCEPT ![th] = Idle]
        /\ xr_trace' = [xr_trace EXCEPT !.stopped = @ \ {th}]
        /\ last' = Call("execute_recovery", stream_name,
                        [admitted |-> TRUE, stopped |-> th \in xr_trace.stopped,
                         slept |-> now - call.start, delay |-> call.t - call.start],
                        call.action)
        /\ UNCHANGED <<smVars, plVars, cbVars, policies, retry_configs, failure_history,
                       watchdog, event_log, isolated, rtsp, yVars, now>>

\* a direct call of calculate_exponential_delay, as in
\* test_exponential_delay_calculation; rand() is called only with jitter on
CalculateExponentialDelay(config, attempt, r) ==
    /\ last' = Call("calculate_exponential_delay", None,
                    [config |-> config, attempt |-> attempt,
                     r |-> IF config.jitter THEN r ELSE 0],
                    calculate_exponential_delay(config, attempt, r))
    /\ UNCHANGED <<smVars, plVars, cbVars, mtVars, rmVars, now>>

\* a call of record_failure alone, as execute_recovery makes it for an
\* admitted call
RecordFailure(stream_name, error) ==
    /\ Cardinality({i \in DOMAIN failure_history :
                      failure_history[i].timestamp >= HistoryCap}) < MaxPushes
    /\ failure_history' = record_failure(failure_history, stream_name, error, now)
    /\ last' = Call("record_failure", stream_name, error, None)
    /\ UNCHANGED <<smVars, plVars, cbVars, mtVars, policies, circuit_breakers,
                   retry_configs, telemetry, now>>

----------------------------------------------------------------------------
(* health: the event log of the HealthMonitor *)

AlertSeverity == {"Info", "Warning", "Error", "Critical"}

\* HealthAlert (its message is left out)
HealthAlert(t, severity, stream) == [timestamp |-> t, severity |-> severity, stream |-> stream]

RECURSIVE pop_front_while_full(_)
\* while log.len() >= 1000 { log.pop_front(); }
pop_front_while_full(log) ==
    IF Len(log) >= EventLogCap THEN pop_front_while_full(Tail(log)) ELSE log

\* HealthMonitor::log_event_static: room is made, then the alert is pushed
log_event_static(log, alert) == Append(pop_front_while_full(log), alert)

\* HealthMonitor::log_event with an alert stamped Instant::now()
LogEvent(severity, stream) ==
    /\ Cardinality({i \in DOMAIN event_log :
                      event_log[i].timestamp >= EventLogCap}) < MaxPushes
    /\ event_log' = log_event_static(event_log, HealthAlert(now, severity, stream))
    /\ last' = Call("log_event", stream, severity, None)
    /\ UNCHANGED <<smVars, plVars, cbVars, rmVars, threads, watchdog, xVars, now>>

----------------------------------------------------------------------------
(* isolation: StreamIsolator *)

\* the streams handed to the isolator
IsoNames == {"cam1", "cam2"}

\* IsolatedStream as isolate_stream builds it, held by its panic_count;
\* poisoned: a thread has panicked while it held the stream's mutex, so
\* lock().unwrap() on it panics from then on
IsolatedStream_new == [panic_count |-> 0, poisoned |-> FALSE]

\* StreamIsolator::isolate_stream: refused for a name already isolated; the
\* thread pool is created (pool_ok) before the stream is inserted
IsolateStream(name, pool_ok) ==
    LET fresh == name \notin DOMAIN isolated
    IN  /\ isolated' = IF fresh /\ pool_ok
                       THEN insert(isolated, name, IsolatedStream_new)
                       ELSE isolated
        /\ last' = Call("isolate_stream", name, fresh => pool_ok,
                        IF fresh /\ pool_ok THEN "Ok" ELSE "Other")
        /\ UNCHANGED <<smVars, plVars, cbVars, rmVars, threads, watchdog, event_log,
                       rtsp, xr_trace, yVars, now>>

\* StreamIsolator::remove_stream
IsolatorRemoveStream(name) ==
    /\ isolated' = remove(isolated, name)
    /\ last' = Call("isolator_remove_stream", name, None,
                    IF name \in DOMAIN isolated THEN "Ok" ELSE "Other")
    /\ UNCHANGED <<smVars, plVars, cbVars, rmVars, threads, watchdog, event_log,
                   rtsp, xr_trace, yVars, now>>

\* handle_panic that answers Remove from the third panic on
handle_panic_from_limit(iso, stream_name) ==
    IF stream_name \in DOMAIN iso /\ iso[stream_name].poisoned
    THEN [streams |-> iso, ret |-> "panic"]
    ELSE IF stream_name \in DOMAIN iso
    THEN LET panic_count == iso[stream_name].panic_count + 1
         IN  [streams |-> [iso EXCEPT ![stream_name].panic_count = panic_count],
              ret |-> IF panic_count >= PanicLimit THEN "Remove" ELSE "Restart"]
    ELSE [streams |-> iso, ret |-> "Ignore"]

\* StreamIsolator::handle_panic: the panic is counted; Remove above
\* PanicLimit panics, Restart up to it, Ignore for a stream not isolated.
\* stream.lock().unwrap() panics on a poisoned mutex (ret "panic").
handle_panic(iso, stream_name) ==
    IF stream_name \in DOMAIN iso /\ iso[stream_name].poisoned
    THEN [streams |-> iso, ret |-> "panic"]
    ELSE IF stream_name \in DOMAIN iso
    THEN LET panic_count == iso[stream_name].panic_count + 1
         IN  [streams |-> [iso EXCEPT ![stream_name].panic_count = panic_count],
              ret |-> IF panic_count > PanicLimit THEN "Remove" ELSE "Restart"]
    ELSE [streams |-> iso, ret |-> "Ignore"]

HandlePanic(stream_name) ==
    LET r == handle_panic(isolated, stream_name)
    IN  /\ stream_name \in DOMAIN isolated =>
              isolated[stream_name].panic_count < MaxPanics
        /\ isolated' = r.streams
        /\ last' = Call("handle_panic", stream_name, None, r.ret)
        /\ UNCHANGED <<smVars, plVars, cbVars, rmVars, threads, watchdog, event_log,
                       rtsp, xr_trace, yVars, now>>

\* what a call that locks the stream's mutex returns: `missing` for a stream
\* not isolated, a panic of lock().unwrap() on a poisoned mutex, else `found`
lock_stream(iso, name, found, missing) ==
    IF name \notin DOMAIN iso THEN missing
    ELSE IF iso[name].poisoned THEN "panic"
    ELSE found

\* StreamIsolator::get_stream_resources
GetStreamResources(name) ==
    /\ last' = Call("get_stream_resources", name, None,
                    lock_stream(isolated, name, "Some", None))
    /\ UNCHANGED <<smVars, plVars, cbVars, rmVars, mtVars, now>>

\* StreamIsolator::enforce_memory_quota with enable_resource_limits (the
\* default): memory_usage is 0 from isolate_stream on and nothing writes it,
\* so the quota is never exceeded
EnforceMemoryQuota(name) ==
    /\ last' = Call("enforce_memory_quota", name, None,
                    lock_stream(isolated, name, "Ok", "Ok"))
    /\ UNCHANGED <<smVars, plVars, cbVars, rmVars, mtVars, now>>

\* StreamIsolator::set_stream_quota
SetStreamQuota(name) ==
    /\ last' = Call("set_stream_quota", name, None,
                    lock_stream(isolated, name, "Ok", "Other"))
    /\ UNCHANGED <<smVars, plVars, cbVars, rmVars, mtVars, now>>

\* StreamIsolator::start_monitoring: running is set and the monitor thread is
\* spawned; it starts at the test of its while loop
StartMonitoring ==
    /\ monitor.pc \in {"none", "exited", "panicked"} /\ ~monitor.joining
    /\ monitor' = [monitor EXCEPT !.running = TRUE, !.pc = "check"]
    /\ last' = Call("start_monitoring", None, None, "Ok")
    /\ UNCHANGED <<smVars, plVars, cbVars, rmVars, threads, watchdog, event_log,
                   isolated, rtsp, xr_trace, timers, procs, now>>

\* the monitor thread tests `while *running.lock().unwrap()`: it goes to
\* sleep for a second, or leaves the loop and ends
MonitorCheck ==
    /\ monitor.pc = "check"
    /\ monitor' = [monitor EXCEPT !.pc = IF monitor.running THEN "sleep" ELSE "exited"]
    /\ last' = Call("monitor_check", None, None, monitor.running)
    /\ UNCHANGED <<smVars, plVars, cbVars, rmVars, threads, watchdog, event_log,
                   isolated, rtsp, xr_trace, timers, procs, now>>

\* the monitor thread wakes and iterates over the streams: with none it
\* returns to the test; otherwise it locks the first entry the iterator
\* yields (any of them), its memory_usage and cpu_usage, writes last_activity
\* and reaches todo!(), which panics: the thread ends and the mutexes it
\* held are poisoned. On an entry already poisoned lock().unwrap() panics.
MonitorScan ==
    /\ monitor.pc = "sleep"
    /\ IF DOMAIN isolated = {}
       THEN /\ monitor' = [monitor EXCEPT !.pc = "check"]
            /\ last' = Call("monitor_scan", None, None, "Ok")
            /\ UNCHANGED isolated
       ELSE \E name \in DOMAIN isolated :
               /\ isolated' = [isolated EXCEPT ![name].poisoned = TRUE]
               /\ monitor' = [monitor EXCEPT !.pc = "panicked"]
               /\ last' = Call("monitor_scan", name, None, "panic")
    /\ UNCHANGED <<smVars, plVars, cbVars, rmVars, threads, watchdog, event_log,
                   rtsp, xr_trace, timers, procs, now>>

\* StreamIsolator::stop_monitoring up to the join: running is cleared; with
\* no handle stored the call returns at once
StopMonitoringFlag ==
    /\ ~monitor.joining
    /\ monitor' = [monitor EXCEPT !.running = FALSE, !.joining = monitor.pc # "none"]
    /\ last' = IF monitor.pc = "none"
               THEN Call("stop_monitoring", None, None, "Ok")
               ELSE Call("stop_monitoring_flag", None, None, None)
    /\ UNCHANGED <<smVars, plVars, cbVars, rmVars, threads, watchdog, event_log,
                   isolated, rtsp, xr_trace, timers, procs, now>>

\* stop_monitoring: handle.join() returns once the monitor thread has ended
\* (its result, Err after a panic, is dropped)
StopMonitoringJoin ==
    /\ monitor.joining /\ monitor.pc \in {"exited", "panicked"}
    /\ monitor' = [monitor EXCEPT !.joining = FALSE, !.pc = "none"]
    /\ last' = Call("stop_monitoring", None, None, "Ok")
    /\ UNCHANGED <<smVars, plVars, cbVars, rmVars, threads, watchdog, event_log,
                   isolated, rtsp, xr_trace, timers, procs, now>>

----------------------------------------------------------------------------
(* source: RtspSourceRobust *)

\* the substrings classify_network_error looks for; an error message is
\* modelled by the set of those it contains
RtspTokens == {"401", "timeout", "Timeout", "404", "connection refused"}

contains(msg, token) == token \in msg

\* RtspSourceRobust::classify_network_error: the first test that matches
classify_network_error(retry_on_401, error_msg) ==
    IF contains(error_msg, "401") /\ retry_on_401 THEN "Replace"
    ELSE IF contains(error_msg, "timeout") \/ contains(error_msg, "Timeout") THEN "Retry"
    ELSE IF contains(error_msg, "404") THEN "Remove"
    ELSE IF contains(error_msg, "connection refused") THEN "Retry"
    ELSE "Restart"

\* RtspSourceRobust::reconnect_with_backoff when the first `fails` calls of
\* attempt_connection fail, all because set_state fails (set_state_err) or
\* all because Playing is not reached: attempts are made until one succeeds
\* or max_attempts have failed
reconnect_with_backoff(src, fails, set_state_err) ==
    LET failed == Min(fails, src.max_attempts)
        ok == fails < src.max_attempts
        counted == IF set_state_err THEN src.consecutive_failures + failed
                   ELSE src.consecutive_failures
    IN  [ok |-> ok,
         attempts |-> IF ok THEN failed + 1 ELSE failed,
         src |-> IF ok
                 THEN [src EXCEPT !.connection_state = "Connected",
                                  !.consecutive_failures = 0,
                                  !.total_reconnects = @ + 1]
                 ELSE [src EXCEPT !.connection_state = "Failed",
                                  !.consecutive_failures = counted]]

\* RtspSourceRobust::handle_error(error): the error is counted, the source
\* reconnects with backoff, and only when that has failed a Network error is
\* classified by its message (any other error gives Restart). The sleeps of
\* the backoff are not shown on the clock.
HandleError(error, msg, fails, set_state_err) ==
    LET r == reconnect_with_backoff([rtsp EXCEPT !.errors = @ + 1], fails, set_state_err)
    IN  /\ rtsp.errors < MaxRtspErrors
        /\ rtsp' = [r.src EXCEPT !.state = IF r.ok THEN "Running" ELSE "Failed"]
        /\ last' = Call("handle_error", None,
                        [error |-> error, msg |-> msg, attempts |-> r.attempts],
                        IF r.ok THEN "Ignore"
                        ELSE IF error = "Network"
                             THEN classify_network_error(rtsp.retry_on_401, msg)
                             ELSE "Restart")
        /\ UNCHANGED <<smVars, plVars, cbVars, rmVars, threads, watchdog, event_log,
                       isolated, xr_trace, yVars, now>>

----------------------------------------------------------------------------
(* Initial values of the parts a specification does not drive *)

CircuitBreakerConfig_default ==
    [failure_threshold |-> 5, success_threshold |-> 2, timeout |-> 30000,
     half_open_attempts |-> 3]

\* RecoveryTelemetry::new
RecoveryTelemetry_new ==
    [total_recoveries |-> 0, failed_recoveries |-> 0, circuit_trips |-> 0,
     recovery_times |-> <<>>]

NoCall == Call("new", None, None, None)

InitSM == states = <<>>

InitPL ==
    /\ streams = <<>>
    /\ mgr_streams = <<>>
    /\ active_sources = {}
    /\ active_sinks = {}
    /\ uuid_next = 1

InitCB ==
    /\ breaker = CircuitBreaker_new(CircuitBreakerConfig_default)
    /\ cb_trace = CbTrace_new

\* RecoveryManager::new
InitRM ==
    /\ policies = <<>>
    /\ circuit_breakers = <<>>
    /\ retry_configs = <<>>
    /\ failure_history = <<>>
    /\ telemetry = RecoveryTelemetry_new

----------------------------------------------------------------------------
(* SpecSM: the state machine alone, driven as its unit tests drive it *)

SMInit ==
    /\ InitSM /\ InitPL /\ InitMT /\ InitCB /\ InitRM
    /\ max_streams = 1
    /\ now = 0
    /\ last = NoCall

SMNext ==
    \E stream \in SmNames, condition \in TransitionCondition :
        SM_transition(stream, condition)

SpecSM == SMInit /\ [][SMNext]_vars

----------------------------------------------------------------------------
(* Spec: the pipeline controller with its stream manager *)

Init ==
    /\ InitSM /\ InitPL /\ InitMT /\ InitCB /\ InitRM
    /\ max_streams \in 1..MaxMaxStreams
    /\ now = 0
    /\ last = NoCall

Next ==
    \/ \E c \in ConfigNames, bin_ok \in BOOLEAN, connect_ok \in BOOLEAN, add_ok \in BOOLEAN :
          AddSource(c, bin_ok, connect_ok, add_ok)
    \/ \E id \in StreamKeys, disconnect_ok \in BOOLEAN, gst_ok \in BOOLEAN :
          RemoveSource(id, disconnect_ok, gst_ok)
    \/ \E name \in DirectNames, add_ok \in BOOLEAN : AddStream(name, add_ok)
    \/ \E name \in StreamKeys, gst_ok \in BOOLEAN : RemoveStream(name, gst_ok)
    \/ \E name \in StreamKeys : TriggerRecovery(name)
    \/ BusError

Spec == Init /\ [][Next]_vars

----------------------------------------------------------------------------
(* SpecSK: the StreamManager with its sinks, on a pipeline that is also     *)
(* used directly                                                            *)

SKNext ==
    \/ \E c \in ConfigNames, connect_ok \in BOOLEAN : AddSource(c, TRUE, connect_ok, TRUE)
    \/ \E id \in StreamKeys, disconnect_ok \in BOOLEAN : RemoveSource(id, disconnect_ok, TRUE)
    \/ \E name \in DirectNames : AddStream(name, TRUE)
    \/ \E id \in StreamKeys, k \in SinkNames, prepare_ok \in BOOLEAN, link_ok \in BOOLEAN,
          sync_ok \in BOOLEAN : AddSink(id, k, prepare_ok, link_ok, sync_ok)

SpecSK == Init /\ [][SKNext]_vars

----------------------------------------------------------------------------
(* SpecLC: the lifecycle of the streams of a StreamManager: errors, pause, *)
(* resume, recovery and the stop of the pipeline                            *)

LCInit ==
    /\ InitSM /\ InitPL /\ InitMT /\ InitCB /\ InitRM
    /\ max_streams = 1
    /\ now = 0
    /\ last = NoCall

LCNext ==
    \/ \E c \in ConfigNames : AddSource(c, TRUE, TRUE, TRUE)
    \/ \E id \in StreamKeys : RemoveSource(id, TRUE, TRUE)
    \/ AddStream(PipelineKey, TRUE)
    \/ BusError
    \/ \E name \in StreamKeys : TriggerRecovery(name)
    \/ \E id \in StreamKeys, gst_ok \in BOOLEAN : PauseStream(id, gst_ok)
    \/ \E id \in StreamKeys, gst_ok \in BOOLEAN : ResumeStream(id, gst_ok)
    \/ \E id \in StreamKeys, disconnect_ok \in BOOLEAN, connect_ok \in BOOLEAN :
          HandleStreamError(id, disconnect_ok, connect_ok)
    \/ \E gst_ok \in BOOLEAN : Stop(gst_ok)

SpecLC == LCInit /\ [][LCNext]_vars

----------------------------------------------------------------------------
(* SpecCB: one circuit breaker with any configuration, driven call by call *)

CircuitBreakerConfigs ==
    [failure_threshold : 0..MaxThreshold, success_threshold : 0..MaxThreshold,
     timeout : 0..MaxTimeout, half_open_attempts : 0..MaxHalfOpen]

CBInit ==
    /\ InitSM /\ InitPL /\ InitMT /\ InitRM
    /\ max_streams = 1
    /\ breaker \in {CircuitBreaker_new(c) : c \in CircuitBreakerConfigs}
    /\ cb_trace = CbTrace_new
    /\ now = 0
    /\ last = NoCall

CBNext ==
    \/ CB_on_success
    \/ CB_on_failure
    \/ CB_should_allow_request
    \/ CB_reset
    \/ Tick(1, MaxTime)

SpecCB == CBInit /\ [][CBNext]_vars

----------------------------------------------------------------------------
(* SpecHE: the StreamManager operations that write a handle's StreamHealth *)

HENext ==
    \/ \E c \in ConfigNames : AddSource(c, TRUE, TRUE, TRUE)
    \/ \E id \in StreamKeys : RemoveSource(id, TRUE, TRUE)
    \/ \E id \in StreamKeys, gst_ok \in BOOLEAN : PauseStream(id, gst_ok)
    \/ \E id \in StreamKeys, gst_ok \in BOOLEAN : ResumeStream(id, gst_ok)
    \/ \E id \in StreamKeys, disconnect_ok \in BOOLEAN, connect_ok \in BOOLEAN :
          HandleStreamError(id, disconnect_ok, connect_ok)

SpecHE == LCInit /\ [][HENext]_vars

----------------------------------------------------------------------------
(* SpecRM: the recovery manager *)

RmStreams == {"stream1"}

\* the policies set_policy is called with
RmPolicies ==
    {BuiltinPolicy("Immediate"), BuiltinPolicy("FixedDelay"), BuiltinPolicy("Exponential"),
     Custom(ConstantStrategy("Replace", 0))}

\* the retry configurations set_retry_config is called with
RmRetryConfigs ==
    [max_attempts : {1}, initial_delay : {100}, max_delay : {150},
     exponential_base : {2}, jitter : {FALSE}]

\* the breaker configurations enable_circuit_breaker is called with
RmBreakerConfigs ==
    [failure_threshold : 1..2, success_threshold : {1}, timeout : {50},
     half_open_attempts : {1}]

RMInit ==
    /\ InitSM /\ InitPL /\ InitMT /\ InitCB /\ InitRM
    /\ max_streams = 1
    /\ now = 0
    /\ last = NoCall

RMNext ==
    \/ \E s \in RmStreams, p \in RmPolicies : SetPolicy(s, p)
    \/ \E s \in RmStreams, c \in RmRetryConfigs : SetRetryConfig(s, c)
    \/ \E s \in RmStreams, c \in RmBreakerConfigs : EnableCircuitBreaker(s, c)
    \/ \E s \in RmStreams : ResetStreamState(s)
    \/ \E s \in RmStreams, e \in ErrorKinds, a \in 0..MaxAttempt, r \in 0..(RandDen - 1) :
          ExecuteRecovery(s, e, a, r)
    \/ Tick(100, RmMaxTime)

SpecRM == RMInit /\ [][RMNext]_vars

----------------------------------------------------------------------------
(* SpecAS: add_stream called from two threads at once *)

ASInit ==
    /\ InitSM /\ InitPL /\ InitMT /\ InitCB /\ InitRM
    /\ max_streams \in 1..MaxMaxStreams
    /\ now = 0
    /\ last = NoCall

ASNext ==
    \/ \E th \in Threads, name \in MtNames, add_ok \in BOOLEAN :
          AddStreamCheck(th, name, add_ok)
    \/ \E th \in Threads : AddStreamInsert(th)
    \/ \E th \in Threads : AddStreamTransition(th)
    \/ \E name \in MtNames, gst_ok \in BOOLEAN : RemoveStream(name, gst_ok)

SpecAS == ASInit /\ [][ASNext]_vars

----------------------------------------------------------------------------
(* SpecWD: the watchdog callback, and feeds from two threads, on the stream *)
(* "pipeline"                                                               *)

WDInit ==
    /\ InitSM /\ InitPL /\ InitCB /\ InitRM
    /\ threads = [th \in Threads |-> Idle]
    /\ watchdog \in {WatchdogTimer_new(TRUE, t) : t \in 1..MaxWdTimeout}
    /\ event_log = <<>>
    /\ InitX
    /\ max_streams = 1
    /\ now = 0
    /\ last = NoCall

WDNext ==
    \/ NoReaders /\ AddStream(PipelineKey, TRUE)
    \/ BusError
    \/ TriggerRecovery(PipelineKey)
    \/ \E th \in Threads, op \in {"feed", "update_stream_metrics"}, m \in MetricsValues :
          FeedNow(th, op, PipelineKey, m)
    \/ \E th \in Threads : FeedWrite(th)
    \/ WatchdogStart
    \/ WatchdogTick
    \/ \E name \in DirectNames : WatchdogCheck(name)
    \/ WatchdogWrite
    \/ WatchdogDone
    \/ Tick(1, MaxWdTime)

SpecWD == WDInit /\ [][WDNext]_vars

----------------------------------------------------------------------------
(* SpecRB: the two ring buffers, started empty, one short of full, or full *)

\* the numbers of entries the buffers hold at the start
RbFills == {0, HistoryCap - 1, HistoryCap}

\* the buffers hold n entries stamped 0 .. n-1, and the clock stands at
\* HistoryCap ms
RBInit ==
    /\ InitSM /\ InitPL /\ InitCB
    /\ threads = [th \in Threads |-> Idle]
    /\ watchdog = WatchdogTimer_new(TRUE, 10000)
    /\ InitX
    /\ policies = <<>> /\ circuit_breakers = <<>> /\ retry_configs = <<>>
    /\ telemetry = RecoveryTelemetry_new
    /\ \E n \in RbFills :
          /\ failure_history = [i \in 1..n |->
                [timestamp |-> i - 1, error_type |-> "Network", stream_name |-> "cam1"]]
          /\ event_log = [i \in 1..n |-> HealthAlert(i - 1, "Info", "cam1")]
    /\ max_streams = MaxMaxStreams
    /\ now = HistoryCap
    /\ last = NoCall

RBNext ==
    \/ \E error \in {"Network", "Timeout"} : RecordFailure("cam1", error)
    \/ \E severity \in {"Warning", "Critical"} : LogEvent(severity, "cam1")
    \/ Tick(1, HistoryCap + MaxRbTicks)

SpecRB == RBInit /\ [][RBNext]_vars

----------------------------------------------------------------------------
(* SpecIS: the StreamIsolator *)

ISInit == Init

ISNext ==
    \/ \E name \in IsoNames, pool_ok \in BOOLEAN : IsolateStream(name, pool_ok)
    \/ \E name \in IsoNames : IsolatorRemoveStream(name)
    \/ \E name \in IsoNames : HandlePanic(name)

SpecIS == ISInit /\ [][ISNext]_vars

----------------------------------------------------------------------------
(* SpecMN: the StreamIsolator with its resource-monitor thread *)

MNNext ==
    \/ \E name \in IsoNames : IsolateStream(name, TRUE)
    \/ \E name \in IsoNames : IsolatorRemoveStream(name)
    \/ \E name \in IsoNames : HandlePanic(name)
    \/ \E name \in IsoNames : GetStreamResources(name)
    \/ \E name \in IsoNames : EnforceMemoryQuota(name)
    \/ \E name \in IsoNames : SetStreamQuota(name)
    \/ StartMonitoring
    \/ MonitorCheck
    \/ MonitorScan
    \/ StopMonitoringFlag
    \/ StopMonitoringJoin

SpecMN == ISInit /\ [][MNNext]_vars

----------------------------------------------------------------------------
(* SpecTK: start and stop of the watchdog and of the health monitor, with  *)
(* the callbacks they install, on a stream that is never fed                *)

\* the watchdog timeout is half a period
TKInit ==
    /\ InitSM /\ InitPL /\ InitCB /\ InitRM
    /\ threads = [th \in Threads |-> Idle]
    /\ watchdog = WatchdogTimer_new(TRUE, 500)
    /\ event_log = <<>>
    /\ InitX
    /\ max_streams = 1
    /\ now = 0
    /\ last = NoCall

TKNext ==
    \/ AddStream(PipelineKey, TRUE)
    \/ \E c \in TimerOwners : TimerStart(c)
    \/ \E c \in TimerOwners : TimerStop(c)
    \/ \E c \in TimerOwners, id \in 1..MaxTimerStarts : TimerFire(c, id)
    \/ TimerTick

SpecTK == TKInit /\ [][TKNext]_vars

----------------------------------------------------------------------------
(* SpecDL: the calls of the pipeline on two caller threads and the         *)
(* callbacks of the main loop, followed through their locks                 *)

\* the two keys share a shard or not; the shard locks are fair or not
DLInit ==
    /\ InitSM /\ InitPL /\ InitCB /\ InitRM
    /\ threads = [th \in Threads |-> Idle]
    /\ watchdog = WatchdogTimer_new(TRUE, 10000)
    /\ event_log = <<>>
    /\ isolated = <<>>
    /\ rtsp = RtspSourceRobust_new(TRUE, 10)
    /\ xr_trace = XrTrace_new
    /\ monitor = Monitor_new
    /\ timers = [c \in TimerOwners |-> Timer_new]
    /\ procs \in {Procs_new([n \in LkNames |-> IF n = "cam1" THEN "s0" ELSE s], fair) :
                     s \in {"s0", "s1"}, fair \in BOOLEAN}
    /\ max_streams = MaxMaxStreams
    /\ now = 0
    /\ last = NoCall

DLNext ==
    \/ \E p \in Threads, op \in PipelineOps, name \in LkNames : ProcBegin(p, op, name)
    \/ \E op \in MainLoopOps : ProcBegin("main", op, None)
    \/ \E p \in Procs : ProcStep(p)

SpecDL == DLInit /\ [][DLNext]_vars

----------------------------------------------------------------------------
(* SpecAW: the calls of the StreamManager on two caller threads, followed  *)
(* through their locks and their awaits                                     *)

AWNext ==
    \/ \E p \in Threads, op \in ManagerOps, name \in LkNames : ProcBegin(p, op, name)
    \/ \E p \in Threads : ProcStep(p)

SpecAW == DLInit /\ [][AWNext]_vars

----------------------------------------------------------------------------
(* SpecRS: one RTSP source handling errors *)

RSInit ==
    /\ InitSM /\ InitPL /\ InitCB /\ InitRM
    /\ threads = [th \in Threads |-> Idle]
    /\ watchdog = WatchdogTimer_new(TRUE, 10000)
    /\ event_log = <<>>
    /\ isolated = <<>>
    /\ rtsp \in {RtspSourceRobust_new(retry_on_401, max_attempts) :
                    retry_on_401 \in BOOLEAN, max_attempts \in {0, MaxReconnects}}
    /\ xr_trace = XrTrace_new
    /\ InitY
    /\ max_streams = MaxMaxStreams
    /\ now = 0
    /\ last = NoCall

RSNext ==
    \E error \in {"Network", "Source"}, msg \in SUBSET RtspTokens,
       fails \in 0..MaxReconnects, set_state_err \in BOOLEAN :
        HandleError(error, msg, fails, set_state_err)

SpecRS == RSInit /\ [][RSNext]_vars

----------------------------------------------------------------------------
(* SpecXR: execute_recovery called from two threads at once, with a breaker, *)
(* and the stop of the pipeline                                              *)

\* the breaker of the stream: it opens at the first failure and closes after
\* two successes
XrBreakerConfig ==
    [failure_threshold |-> 1, success_threshold |-> 2, timeout |-> 100,
     half_open_attempts |-> 1]

\* one attempt is retried (attempt 0), the next escalates; the delay is 100 ms
XrRetryConfig ==
    [max_attempts |-> 1, initial_delay |-> 100, max_delay |-> 100,
     exponential_base |-> 1, jitter |-> FALSE]

XRInit == RMInit

XRNext ==
    \/ \E s \in RmStreams : SetRetryConfig(s, XrRetryConfig)
    \/ \E s \in RmStreams : EnableCircuitBreaker(s, XrBreakerConfig)
    \/ \E th \in Threads, s \in RmStreams, a \in 0..MaxAttempt, r \in 0..(RandDen - 1) :
          ExecuteRecoveryBegin(th, s, "Network", a, r)
    \/ \E th \in Threads : ExecuteRecoveryEnd(th)
    \/ \E gst_ok \in BOOLEAN : Stop(gst_ok)
    \/ Tick(100, XrMaxTime)

SpecXR == XRInit /\ [][XRNext]_vars

----------------------------------------------------------------------------
(* Specification of calculate_exponential_delay alone *)

\* the retry configurations the delay is calculated for (whole bases)
EdRetryConfigs ==
    [max_attempts : {5}, initial_delay : {1, 100}, max_delay : {150, 10000},
     exponential_base : {1, 2, 3}, jitter : BOOLEAN]

\* the attempt numbers: the small ones, 10, and the u32 values around the
\* sign bit of the i32 cast (2^31 - 1, 2^31, 2^32 - 2, 2^32 - 1)
EdAttempts ==
    {u32(k) : k \in 0..MaxDelayAttempt} \cup
    {u32(10), u32(2147483647),
     [top |-> 1, low |-> 0], [top |-> 1, low |-> 2147483646],
     [top |-> 1, low |-> 2147483647]}

EDInit == RMInit

EDNext ==
    \E c \in EdRetryConfigs, a \in EdAttempts, r \in 0..(RandDen - 1) :
        CalculateExponentialDelay(c, a, r)

SpecED == EDInit /\ [][EDNext]_vars

----------------------------------------------------------------------------
(* Properties *)

\* the transition table as the specification lists it
C1_Table(from, condition) ==
    CASE from = "Idle" /\ condition = "OnSuccess" -> "Starting"
      [] from = "Starting" /\ condition = "OnSuccess" -> "Running"
      [] from = "Starting" /\ condition = "OnError" -> "Failed"
      [] from = "Running" /\ condition = "OnError" -> "Recovering"
      [] from = "Recovering" /\ condition = "OnRecovery" -> "Running"
      [] from = "Recovering" /\ condition = "OnTimeout" -> "Failed"
      [] from = "Running" /\ condition = "OnSuccess" -> "Paused"
      [] from = "Paused" /\ condition = "OnSuccess" -> "Running"
      [] OTHER -> None

C2_RunningAfterAddSource ==
    (last.op = "add_source" /\ last.ret = "Ok") =>
        /\ get_state(states, last.stream) = "Running"
        /\ mgr_streams[last.stream].health.state = "Running"
        /\ streams[last.stream].health.state = "Running"

\* C3: with failure_threshold >= 1, a Closed breaker has failure_count below
\* failure_threshold; and while only on_failure has been called on a fresh
\* breaker it is Closed after fewer than failure_threshold calls and Open, with
\* last_failure_time set, from the failure_threshold-th call on.
C3_OpensAtThreshold ==
    breaker.config.failure_threshold >= 1 =>
        /\ breaker.state = "Closed" =>
              breaker.failure_count < breaker.config.failure_threshold
        /\ cb_trace.only_failures >= 0 =>
              IF cb_trace.only_failures < breaker.config.failure_threshold
              THEN breaker.state = "Closed"
              ELSE breaker.state = "Open" /\ breaker.last_failure_time # NoInstant

\* C3 witness: the breaker opened on the second of two failures
C3_Witness ==
    /\ breaker.config.failure_threshold = 2
    /\ cb_trace.only_failures = 2
    /\ breaker.state = "Open"

\* C4: an Open breaker moves to HalfOpen exactly when should_allow_request is
\* called with now - last_failure_time >= timeout (the boundary included): the
\* call returns true and zeroes success_count; an earlier call returns false
\* and changes nothing; no other operation moves Open to HalfOpen. (Stated
\* for breakers whose timeout and failure_threshold are at least 1.)
C4_HalfOpenAtTimeout ==
    [][ /\ (/\ last'.op = "should_allow_request"
            /\ breaker.state = "Open"
            /\ breaker.config.timeout >= 1
            /\ breaker.config.failure_threshold >= 1) =>
              IF now - breaker.last_failure_time[1] >= breaker.config.timeout
              THEN /\ last'.ret = TRUE
                   /\ breaker'.state = "HalfOpen"
                   /\ breaker'.success_count = 0
              ELSE /\ last'.ret = FALSE
                   /\ breaker' = breaker
        /\ (last'.op # "should_allow_request" /\ breaker.state = "Open") =>
              breaker'.state # "HalfOpen"
      ]_vars

\* C5: in HalfOpen, for a breaker with success_threshold >= 1, the breaker
\* closes, with both counters 0, on exactly the success_threshold-th
\* on_success since it entered HalfOpen and stays HalfOpen on the earlier
\* ones; an on_failure in HalfOpen opens it and zeroes both counters.
C5_HalfOpenExits ==
    [][ /\ (/\ last'.op = "on_success"
            /\ breaker.state = "HalfOpen"
            /\ breaker.config.success_threshold >= 1) =>
              IF cb_trace'.half_open_successes = breaker.config.success_threshold
              THEN /\ breaker'.state = "Closed"
                   /\ breaker'.failure_count = 0
                   /\ breaker'.success_count = 0
              ELSE /\ cb_trace'.half_open_successes < breaker.config.success_threshold
                   /\ breaker'.state = "HalfOpen"
        /\ (last'.op = "on_failure" /\ breaker.state = "HalfOpen") =>
              /\ breaker'.state = "Open"
              /\ breaker'.failure_count = 0
              /\ breaker'.success_count = 0
      ]_vars

\* C5 as stated, for every success_threshold (0 included): the breaker is
\* HalfOpen while fewer than success_threshold successes have been counted
\* since it entered HalfOpen, and closes on the success_threshold-th.
C5_HalfOpenExitsAnyThreshold ==
    [][ (last'.op = "on_success" /\ breaker.state = "HalfOpen") =>
              IF cb_trace'.half_open_successes = breaker.config.success_threshold
              THEN /\ breaker'.state = "Closed"
                   /\ breaker'.failure_count = 0
                   /\ breaker'.success_count = 0
              ELSE /\ cb_trace'.half_open_successes < breaker.config.success_threshold
                   /\ breaker'.state = "HalfOpen"
      ]_vars

\* C5 witness: the second of two successes in HalfOpen closed the breaker
C5_Witness ==
    /\ last.op = "on_success"
    /\ breaker.config.success_threshold = 2
    /\ cb_trace.half_open_successes = 2
    /\ breaker.state = "Closed"
    /\ breaker.last_failure_time # NoInstant

\* the retry configuration execute_recovery uses for a stream
C_RetryConfigOf(stream_name) ==
    IF stream_name \in DOMAIN retry_configs
    THEN retry_configs[stream_name]
    ELSE RetryConfig_default

\* C6: when the stream's breaker is Open and its timeout has not elapsed,
\* execute_recovery returns Escalate at once: the clock has not moved (no
\* sleep), and the failure history, the telemetry and the breakers are as
\* they were.
C6_OpenBreakerFailsFast ==
    [][ (/\ last'.op = "execute_recovery"
         /\ last'.stream \in DOMAIN circuit_breakers
         /\ circuit_breakers[last'.stream].state = "Open"
         /\ now - circuit_breakers[last'.stream].last_failure_time[1]
               < circuit_breakers[last'.stream].config.timeout) =>
            /\ last'.ret = "Escalate"
            /\ ~last'.arg.admitted
            /\ now' = now
            /\ failure_history' = failure_history
            /\ telemetry' = telemetry
            /\ circuit_breakers' = circuit_breakers
      ]_vars

\* C6 witness: a call was refused while the breaker was Open inside its
\* timeout, after an earlier call had been recorded
C6_Witness ==
    /\ last.op = "execute_recovery"
    /\ ~last.arg.admitted
    /\ last.ret = "Escalate"
    /\ circuit_breakers[last.stream].state = "Open"
    /\ now - circuit_breakers[last.stream].last_failure_time[1]
          < circuit_breakers[last.stream].config.timeout
    /\ Len(failure_history) = 1
    /\ telemetry.circuit_trips = 1

\* C7: an admitted execute_recovery for a stream whose policy is Immediate,
\* FixedDelay or Exponential returns Escalate when attempt >= max_attempts of
\* the stream's retry configuration and Retry when attempt < max_attempts.
C7_BudgetUnderBuiltinPolicies ==
    (/\ last.op = "execute_recovery"
     /\ last.arg.admitted
     /\ last.stream \in DOMAIN policies
     /\ policies[last.stream].kind \in {"Immediate", "FixedDelay", "Exponential"}) =>
        last.ret = IF last.arg.attempt >= C_RetryConfigOf(last.stream).max_attempts
                   THEN "Escalate" ELSE "Retry"

C9_RemoveByErrorKind ==
    (/\ last.op = "execute_recovery"
     /\ last.arg.admitted
     /\ last.stream \notin DOMAIN policies
     /\ last.arg.error \in {"ResourceExhaustion", "Configuration"}
     /\ last.arg.attempt < C_RetryConfigOf(last.stream).max_attempts) =>
        last.ret = "Remove"

\* C10: with Custom(strategy) set for the stream, an admitted execute_recovery
\* returns what this strategy's decide_action(error, attempt) returns and
\* sleeps for this strategy's calculate_delay(attempt).
C10_CustomStrategyUsed ==
    [][ (/\ last'.op = "execute_recovery"
         /\ last'.arg.admitted
         /\ last'.stream \in DOMAIN policies
         /\ policies[last'.stream].kind = "Custom") =>
            LET strategy == policies[last'.stream].strategy
            IN  /\ last'.ret = decide_action(strategy, last'.arg.error, last'.arg.attempt)
                /\ now' - now = calculate_delay(strategy, last'.arg.attempt)
      ]_vars

\* min(initial_delay * base^k, max_delay) for the attempt k = top * 2^31 + low
\* and initial_delay >= 1: with a base >= 2 the power passes every max_delay
\* long before k reaches 2^31
C11_MinPow(config, k) ==
    IF config.exponential_base = 1
    THEN Min(config.initial_delay, config.max_delay)
    ELSE IF k.top = 1
    THEN config.max_delay
    ELSE Min(config.initial_delay
                 * PowAcc(1, config.exponential_base, k.low, config.max_delay + 1),
             config.max_delay)

\* C11: with jitter off calculate_exponential_delay(config, k) is
\* min(initial_delay * base^k, max_delay) in whole ms for every attempt k >= 0;
\* with jitter on it lies between 0 and 1.2 * min(initial_delay * base^k,
\* max_delay).
C11_ExponentialDelay ==
    last.op = "calculate_exponential_delay" =>
        LET want == C11_MinPow(last.arg.config, last.arg.attempt)
        IN  IF last.arg.config.jitter
            THEN 0 <= last.ret /\ 5 * last.ret <= 6 * want
            ELSE last.ret = want

\* C11 below the sign bit: the same statement for the attempts k < 2^31
C11_ExponentialDelayBelowSignBit ==
    (last.op = "calculate_exponential_delay" /\ last.arg.attempt.top = 0) =>
        C11_ExponentialDelay

C13_AtMostMaxStreams == Cardinality(DOMAIN streams) <= max_streams

\* the key sets of the StreamManager's stream map and source map and of the
\* pipeline's stream map
C14_KeySets == <<DOMAIN mgr_streams, active_sources, DOMAIN streams>>

\* C14: a successful add_source adds its new id, and nothing else, to the
\* three key sets, and the remove_source of that id that follows it, with a
\* disconnect that succeeds, takes the id out again: the key sets are the
\* ones before the add.
C14_AddRemoveRoundTrip ==
    [][ /\ (last'.op = "add_source" /\ last'.ret = "Ok") =>
              /\ last'.stream \notin DOMAIN mgr_streams \cup active_sources \cup DOMAIN streams
              /\ C14_KeySets' = <<DOMAIN mgr_streams \cup {last'.stream},
                                  active_sources \cup {last'.stream},
                                  DOMAIN streams \cup {last'.stream}>>
        /\ (/\ last.op = "add_source" /\ last.ret = "Ok"
            /\ last'.op = "remove_source" /\ last'.stream = last.stream
            /\ last'.arg.disconnect_ok) =>
              C14_KeySets' = <<DOMAIN mgr_streams \ {last.stream},
                               active_sources \ {last.stream},
                               DOMAIN streams \ {last.stream}>>
      ]_vars

\* C14 when the pipeline's removal succeeds too: the same statement for a
\* remove_source that returns Ok
C14_AddRemoveRoundTripWhenRemoved ==
    [][ (/\ last.op = "add_source" /\ last.ret = "Ok"
         /\ last'.op = "remove_source" /\ last'.stream = last.stream
         /\ last'.ret = "Ok") =>
              C14_KeySets' = <<DOMAIN mgr_streams \ {last.stream},
                               active_sources \ {last.stream},
                               DOMAIN streams \ {last.stream}>>
      ]_vars

\* C15: remove_source of a registered stream returns Ok and deletes the
\* stream from the StreamManager's stream map and source map and from the
\* pipeline, also when the source's disconnect() fails.
C15_RemoveDespiteDisconnectError ==
    [][ (/\ last'.op = "remove_source"
         /\ last'.stream \in DOMAIN mgr_streams
         /\ last'.stream \in active_sources
         /\ last'.stream \in DOMAIN streams
         /\ last'.arg.gst_ok) =>
            /\ last'.ret = "Ok"
            /\ last'.stream \notin DOMAIN mgr_streams'
            /\ last'.stream \notin active_sources'
            /\ last'.stream \notin DOMAIN streams'
      ]_vars

\* C16: add_sink and remove_source with an id that is not in the
\* StreamManager's stream map return a Stream error and change no map, and
\* add_sink does not call sink.prepare().
C16_UnknownIdRefused ==
    [][ (/\ last'.op \in {"add_sink", "remove_source"}
         /\ last'.stream \notin DOMAIN mgr_streams) =>
            /\ last'.ret = "Stream"
            /\ last'.op = "add_sink" => ~last'.arg.prepared
            /\ mgr_streams' = mgr_streams
            /\ active_sources' = active_sources
            /\ active_sinks' = active_sinks
            /\ streams' = streams
      ]_vars

\* C16 for an id that the pipeline does not hold either
C16_UnknownIdRefusedUnlessInPipeline ==
    [][ (/\ last'.op \in {"add_sink", "remove_source"}
         /\ last'.stream \notin DOMAIN mgr_streams
         /\ last'.stream \notin DOMAIN streams) =>
            /\ last'.ret = "Stream"
            /\ last'.op = "add_sink" => ~last'.arg.prepared
            /\ mgr_streams' = mgr_streams
            /\ active_sources' = active_sources
            /\ active_sinks' = active_sinks
            /\ streams' = streams
      ]_vars

\* C17: trigger_recovery(stream) returns Ok exactly when the state machine
\* holds Recovering for the stream; it then records Running for the stream
\* and, in the StreamHealth of a registered stream, sets the state to Running
\* and adds 1 to recovery_attempts. From every other state it returns a
\* StateTransition error and leaves the state machine and every StreamHealth
\* as they were.
C17_TriggerRecovery ==
    [][ last'.op = "trigger_recovery" =>
          LET name == last'.stream
          IN  IF get_state(states, name) = "Recovering"
              THEN /\ last'.ret = "Ok"
                   /\ get_state(states', name) = "Running"
                   /\ \A k \in DOMAIN states \ {name} : states'[k] = states[k]
                   /\ name \in DOMAIN streams =>
                         streams' = [streams EXCEPT ![name].health =
                                        [@ EXCEPT !.state = "Running",
                                                  !.recovery_attempts = @ + 1]]
                   /\ name \notin DOMAIN streams => streams' = streams
              ELSE /\ last'.ret = "StateTransition"
                   /\ states' = states
                   /\ streams' = streams
      ]_vars

\* C17 witness: a registered stream was recovered once
C17_Witness ==
    /\ last.op = "trigger_recovery"
    /\ last.ret = "Ok"
    /\ last.stream \in DOMAIN streams
    /\ streams[last.stream].health.state = "Running"
    /\ streams[last.stream].health.recovery_attempts = 1
    /\ get_state(states, last.stream) = "Running"

\* C18: the watchdog does not write into the StreamHealth of a stream whose
\* last_activity is within the timeout at the moment of the write, however
\* the tick and the feeds interleave.
C18_NoWriteWithinTimeout ==
    [][ (/\ last'.op = "watchdog_write"
         /\ duration_since(now, streams[last'.stream].last_activity) <= watchdog.timeout) =>
            streams'[last'.stream].health = streams[last'.stream].health
      ]_vars

\* C19: for a stream whose last_activity it found older than the timeout, the
\* watchdog adds 1 to consecutive_errors, turns Running into Recovering and
\* leaves any other state, and a Critical alert naming the stream is appended
\* to the event log.
C19_ExpiryDemotesAndAlerts ==
    [][ last'.op = "watchdog_write" =>
          LET name == last'.stream
              health == streams[name].health
          IN  /\ streams'[name].health.consecutive_errors = health.consecutive_errors + 1
              /\ streams'[name].health.state =
                    IF health.state = "Running" THEN "Recovering" ELSE health.state
              /\ Len(event_log') = Len(event_log) + 1
              /\ event_log'[Len(event_log')].severity = "Critical"
              /\ event_log'[Len(event_log')].stream = name
      ]_vars

\* C19 without the alert: what the expiry does to the StreamHealth
C19_ExpiryDemotes ==
    [][ last'.op = "watchdog_write" =>
          LET name == last'.stream
              health == streams[name].health
          IN  /\ streams'[name].health.consecutive_errors = health.consecutive_errors + 1
              /\ streams'[name].health.state =
                    IF health.state = "Running" THEN "Recovering" ELSE health.state
      ]_vars

\* C20: a feed, made directly or through update_stream_metrics, never moves
\* the last_activity of a stream backward, also when feeds overlap.
C20_LastActivityMonotonic ==
    [][ last'.op \in {"feed", "update_stream_metrics"} =>
          \A name \in DOMAIN streams \cap DOMAIN streams' :
              streams'[name].last_activity >= streams[name].last_activity
      ]_vars

\* C21: after stop() has returned Ok the state machine holds Stopped for
\* every registered stream.
C21_StoppedAfterStop ==
    [][ (last'.op = "stop" /\ last'.ret = "Ok") =>
            \A name \in DOMAIN streams' : get_state(states', name) = "Stopped"
      ]_vars

\* C21 for remove_source: after remove_source has returned Ok the state
\* machine holds Stopped for the removed stream
C21_StoppedAfterRemove ==
    [][ (last'.op = "remove_source" /\ last'.ret = "Ok") =>
            get_state(states', last'.stream) = "Stopped"
      ]_vars

\* C22: once the StreamHealth of a stream, in the StreamManager or in the
\* pipeline, holds Failed, every call other than remove_source leaves the
\* stream registered and Failed.
C22_FailedIsTerminal ==
    [][ last'.op # "remove_source" =>
          /\ \A id \in DOMAIN mgr_streams :
                mgr_streams[id].health.state = "Failed" =>
                   /\ id \in DOMAIN mgr_streams'
                   /\ mgr_streams'[id].health.state = "Failed"
          /\ \A id \in DOMAIN streams :
                streams[id].health.state = "Failed" =>
                   /\ id \in DOMAIN streams'
                   /\ streams'[id].health.state = "Failed"
      ]_vars

\* C23: pause_stream of a registered stream, the framework call succeeding,
\* returns Ok and sets Paused when the stream is Running, and resume_stream
\* returns Ok and sets Running when it is Paused; in any other lifecycle state
\* they return StateTransition and leave the state as it is.
C23_PauseResumeGated ==
    [][ (/\ last'.op \in {"pause_stream", "resume_stream"}
         /\ last'.stream \in DOMAIN mgr_streams
         /\ last'.arg) =>
          LET id == last'.stream
              state == mgr_streams[id].health.state
              from == IF last'.op = "pause_stream" THEN "Running" ELSE "Paused"
              to == IF last'.op = "pause_stream" THEN "Paused" ELSE "Running"
          IN  IF state = from
              THEN last'.ret = "Ok" /\ mgr_streams'[id].health.state = to
              ELSE last'.ret = "StateTransition" /\ mgr_streams'[id].health.state = state
      ]_vars

\* C23, the round trip alone: a pause_stream that returned Ok, followed by a
\* resume_stream of the same stream that returns Ok, ends in Running
C23_PauseThenResumeRuns ==
    [][ (/\ last.op = "pause_stream" /\ last.ret = "Ok"
         /\ last'.op = "resume_stream" /\ last'.ret = "Ok"
         /\ last'.stream = last.stream) =>
            /\ mgr_streams[last.stream].health.state = "Paused"
            /\ mgr_streams'[last.stream].health.state = "Running"
      ]_vars

\* C24: for every id of the StreamManager's stream map, the pipeline holds
\* the stream and the state machine an entry for it, and the lifecycle state
\* in the StreamManager's StreamHealth, in the pipeline's StreamHealth and in
\* the state machine are the same (no call is in progress between two steps
\* of the lifecycle specification).
C24_OneLifecycleState ==
    \A id \in DOMAIN mgr_streams :
        /\ id \in DOMAIN streams
        /\ id \in DOMAIN states
        /\ mgr_streams[id].health.state = streams[id].health.state
        /\ streams[id].health.state = states[id]

\* C24, the part about the entries: every stream of the pipeline has an entry
\* in the state machine's table
C24_EveryStreamTracked ==
    \A id \in DOMAIN streams : id \in DOMAIN states

\* C25: the event log and the failure history never hold more than 1000
\* entries, and an insertion into a full buffer drops the oldest entry, puts
\* the new one last and keeps the others in their order; into a buffer that
\* is not full it only appends.
C25_RingBuffers ==
    /\ [](Len(event_log) <= 1000 /\ Len(failure_history) <= 1000)
    /\ [][ /\ last'.op = "record_failure" =>
                LET new == [timestamp |-> now, error_type |-> last'.arg,
                            stream_name |-> last'.stream]
                IN  failure_history' =
                       IF Len(failure_history) = 1000
                       THEN Append(Tail(failure_history), new)
                       ELSE Append(failure_history, new)
           /\ last'.op = "log_event" =>
                LET new == HealthAlert(now, last'.arg, last'.stream)
                IN  event_log' =
                       IF Len(event_log) = 1000
                       THEN Append(Tail(event_log), new)
                       ELSE Append(event_log, new)
         ]_vars

\* C25 witness: both buffers are full and have dropped their oldest entries
C25_Witness ==
    /\ Len(failure_history) = 1000
    /\ failure_history[1].timestamp >= 1
    /\ failure_history[1000].timestamp >= 1000
    /\ Len(event_log) = 1000
    /\ event_log[1].timestamp >= 1
    /\ event_log[1000].timestamp >= 1000

\* C26: handle_panic(stream) of an isolated stream adds 1 to its panic
\* counter, changes no other counter, and returns Restart while the counter
\* is at most 3 and Remove once it is above 3; for a stream that is not
\* isolated it returns Ignore and changes nothing. No call makes the counter
\* of a stream that stays isolated smaller.
C26_HandlePanic ==
    [][ /\ last'.op = "handle_panic" =>
              LET name == last'.stream
              IN  IF name \in DOMAIN isolated
                  THEN /\ isolated' = [isolated EXCEPT ![name].panic_count = @ + 1]
                       /\ last'.ret = IF isolated'[name].panic_count <= 3
                                      THEN "Restart" ELSE "Remove"
                  ELSE /\ last'.ret = "Ignore"
                       /\ isolated' = isolated
        /\ \A name \in DOMAIN isolated \cap DOMAIN isolated' :
              isolated'[name].panic_count >= isolated[name].panic_count
      ]_vars

\* C26 witness: the fourth panic of a stream was answered with Remove
C26_Witness ==
    /\ last.op = "handle_panic"
    /\ last.ret = "Remove"
    /\ isolated[last.stream].panic_count = 4

\* C27: for a Network error whose message contains "404" the classifier
\* answers Remove, and handle_error returns Remove without having made a
\* reconnection attempt.
C27_NotFoundRemovesWithoutReconnect ==
    [][ (/\ last'.op = "handle_error"
         /\ last'.arg.error = "Network"
         /\ contains(last'.arg.msg, "404")) =>
            /\ classify_network_error(rtsp.retry_on_401, last'.arg.msg) = "Remove"
            /\ last'.ret = "Remove"
            /\ last'.arg.attempts = 0
      ]_vars

\* C27 for the message that holds "404" alone, once the reconnection has
\* failed: handle_error returns Remove
C27_NotFoundAloneRemovesAfterReconnect ==
    [][ (/\ last'.op = "handle_error"
         /\ last'.arg.error = "Network"
         /\ last'.arg.msg = {"404"}
         /\ rtsp'.connection_state = "Failed") =>
            last'.ret = "Remove"
      ]_vars

\* C30: on_success in Closed or in Open, and on_failure in Open, leave the
\* breaker's state, failure_count, success_count and last_failure_time as they
\* were.
C30_UnlistedCallsAreNoOps ==
    [][ (\/ last'.op = "on_success" /\ breaker.state \in {"Closed", "Open"}
         \/ last'.op = "on_failure" /\ breaker.state = "Open") =>
            /\ breaker'.state = breaker.state
            /\ breaker'.failure_count = breaker.failure_count
            /\ breaker'.success_count = breaker.success_count
            /\ breaker'.last_failure_time = breaker.last_failure_time
      ]_vars

\* C30 for on_success in Open alone
C30_OnSuccessInOpenIsNoOp ==
    [][ (last'.op = "on_success" /\ breaker.state = "Open") => breaker' = breaker ]_vars

\* C28: an execute_recovery call that was asleep when stop() was called
\* returns Escalate, and returns before its delay has passed.
C28_StopCancelsSleep ==
    [][ (/\ last'.op = "execute_recovery"
         /\ last'.arg.admitted
         /\ last'.arg.stopped) =>
            /\ last'.ret = "Escalate"
            /\ last'.arg.slept < last'.arg.delay
      ]_vars

\* C29: while a stream's breaker is HalfOpen, the execute_recovery calls
\* admitted for the stream since the breaker entered HalfOpen (the call that
\* made it enter included) are at most half_open_attempts, also when calls
\* overlap.
C29_HalfOpenAdmissionsCapped ==
    \A s \in DOMAIN circuit_breakers :
        (circuit_breakers[s].state = "HalfOpen" /\ s \in DOMAIN xr_trace.admitted) =>
            xr_trace.admitted[s] <= circuit_breakers[s].config.half_open_attempts

\* C29 as long as no two calls were in flight at once
C29_SequentialAdmissionsCapped ==
    ~xr_trace.overlap => C29_HalfOpenAdmissionsCapped

\* C33: with failure_threshold, success_threshold and half_open_attempts all at
\* least 1, a HalfOpen breaker with no admitted call still in flight admits
\* the next execute_recovery call: it is never left refusing every call.
C33_HalfOpenNeverTrap ==
    \A s \in DOMAIN circuit_breakers :
        LET b == circuit_breakers[s]
        IN  (/\ b.config.failure_threshold >= 1
             /\ b.config.success_threshold >= 1
             /\ b.config.half_open_attempts >= 1
             /\ b.state = "HalfOpen"
             /\ \A th \in Threads : threads[th].pc = "sleep" => threads[th].name # s) =>
                should_allow_request(b, now).ret

\* C34: every step raises circuit_trips by the number of breakers that the
\* step moves into Open from Closed or HalfOpen.
C34_TripsCountTransitions ==
    [][ telemetry'.circuit_trips - telemetry.circuit_trips =
           Cardinality({s \in DOMAIN circuit_breakers' :
                           /\ circuit_breakers'[s].state = "Open"
                           /\ s \in DOMAIN circuit_breakers
                           /\ circuit_breakers[s].state # "Open"})
      ]_vars

\* C34 as long as no two calls were in flight at once
C34_SequentialTripsCountTransitions ==
    [][ ~xr_trace'.overlap =>
           telemetry'.circuit_trips - telemetry.circuit_trips =
              Cardinality({s \in DOMAIN circuit_breakers' :
                              /\ circuit_breakers'[s].state = "Open"
                              /\ s \in DOMAIN circuit_breakers
                              /\ circuit_breakers[s].state # "Open"})
      ]_vars

\* C35: an add_source or remove_source call that starts with the same ids in
\* the StreamManager's stream map, its source map and the pipeline's stream
\* map leaves the same ids in the three maps, whatever it returns.
C35_SameIdsAfterCall ==
    [][ (/\ last'.op \in {"add_source", "remove_source"}
         /\ DOMAIN mgr_streams = active_sources
         /\ active_sources = DOMAIN streams) =>
            /\ DOMAIN mgr_streams' = active_sources'
            /\ active_sources' = DOMAIN streams'
      ]_vars

\* C35 for the calls that return Ok, and for add_source whatever it returns
C35_SameIdsAfterOkOrAdd ==
    [][ (/\ \/ last'.op = "add_source"
            \/ last'.op = "remove_source" /\ last'.ret = "Ok"
         /\ DOMAIN mgr_streams = active_sources
         /\ active_sources = DOMAIN streams) =>
            /\ DOMAIN mgr_streams' = active_sources'
            /\ active_sources' = DOMAIN streams'
      ]_vars

\* C36: an add_stream that returns Ok leaves the state machine at Starting
\* for its name, also when the name was added and removed before.
C36_AddAfterRemoveStarts ==
    [][ (/\ last'.op = "add_stream" /\ last'.ret = "Ok"
         /\ last'.stream \notin DOMAIN streams) =>
            get_state(states', last'.stream) = "Starting"
      ]_vars

\* C36 for a name the state machine has no entry for: the first add
C36_FirstAddStarts ==
    [][ (/\ last'.op = "add_stream" /\ last'.ret = "Ok"
         /\ last'.stream \notin DOMAIN states) =>
            get_state(states', last'.stream) = "Starting"
      ]_vars

\* C39: handle_stream_error on a registered stream adds 1 to the handle's
\* consecutive_errors and reconnects only when the sum is below 5; from 5 on
\* it sets the state to Failed and returns RecoveryFailed; no step ever
\* lowers the counter of a stream that stays registered.
C39_ErrorBudgetIsForLife ==
    [][ /\ \A id \in DOMAIN mgr_streams \cap DOMAIN mgr_streams' :
              mgr_streams'[id].health.consecutive_errors >=
                 mgr_streams[id].health.consecutive_errors
        /\ (last'.op = "handle_stream_error" /\ last'.stream \in DOMAIN mgr_streams) =>
              LET before == mgr_streams[last'.stream].health
                  after == mgr_streams'[last'.stream].health
              IN  /\ after.consecutive_errors = before.consecutive_errors + 1
                  /\ (last'.ret # "RecoveryFailed") <=> (before.consecutive_errors + 1 < 5)
                  /\ before.consecutive_errors + 1 >= 5 =>
                        /\ after.state = "Failed"
                        /\ last'.ret = "RecoveryFailed"
                        /\ after.recovery_attempts = before.recovery_attempts
      ]_vars

\* the sixth handle_stream_error of a stream has been refused after four
\* recoveries that all succeeded
C39_Witness ==
    /\ last.op = "handle_stream_error" /\ last.ret = "RecoveryFailed"
    /\ last.stream \in DOMAIN mgr_streams
    /\ mgr_streams[last.stream].health.consecutive_errors = 6
    /\ mgr_streams[last.stream].health.recovery_attempts = 4
    /\ mgr_streams[last.stream].health.state = "Failed"

\* C40, the calls: handle_panic, get_stream_resources, enforce_memory_quota
\* and set_stream_quota return without panicking
C40_CallsReturn ==
    last.op \in {"handle_panic", "get_stream_resources", "enforce_memory_quota",
                 "set_stream_quota"} => last.ret # "panic"

\* C40: while running is set the resource-monitor thread is alive (at the
\* test of its loop or asleep), and handle_panic, get_stream_resources,
\* enforce_memory_quota and set_stream_quota return without panicking.
C40_MonitorHarmless ==
    /\ monitor.running => monitor.pc \in {"check", "sleep"}
    /\ C40_CallsReturn

\* C37: at most one periodic callback of the WatchdogTimer, and of the
\* HealthMonitor, is installed at a time, and a stream's consecutive_errors
\* is at most the number of periods that have passed.
C37_OneLiveCallback ==
    /\ \A c \in TimerOwners : Cardinality(DOMAIN timers[c].sources) <= 1
    /\ \A n \in DOMAIN streams :
          streams[n].health.consecutive_errors <= now \div TimerPeriod

\* C37 when start was called once: one callback, one error per period
C37_OneCallbackPerStart ==
    (\A c \in TimerOwners : timers[c].installed <= 1) => C37_OneLiveCallback

\* C31: a StreamManager call that is suspended in an .await holds no
\* reference into a map and no StreamHealth lock.
C31_NothingHeldAcrossAwait ==
    \A p \in Procs :
        (InCall(p) /\ Instr(p)[1] = "await") => procs.calls[p].held = {}

\* C31 for add_source, remove_source and pause_stream
C31_NothingHeldAcrossAwaitInAddRemove ==
    \A p \in Procs :
        (/\ InCall(p) /\ Instr(p)[1] = "await"
         /\ procs.calls[p].op \in {"add_source", "remove_source", "pause_stream"}) =>
            procs.calls[p].held = {}

\* C32: the watchdog callback is never kept waiting for a health or
\* last_activity lock that another thread holds.
C32_WatchdogNeverWaits ==
    ~(/\ procs.calls["main"].op = "watchdog_tick"
      /\ Instr("main")[1] = "lock"
      /\ Blocked("main"))

\* the threads that can never make another step: each is kept waiting by a
\* thread of the set
Stuck(S) ==
    /\ S # {}
    /\ \A p \in S : Blockers(p) \cap S # {}

\* C38: no set of threads waits in a cycle on the state-machine mutex, the
\* shard locks of the stream map, the health mutexes and the last_activity
\* mutexes.
C38_NoDeadlock ==
    \A S \in SUBSET Procs : ~Stuck(S)

\* a caller is inside trigger_recovery with the state machine and a health
\* mutex locked while the watchdog callback waits for that health mutex and
\* the other caller waits for the state machine
C38_Witness ==
    \E p \in Threads, q \in Threads :
        /\ p # q
        /\ procs.calls[p].op = "trigger_recovery"
        /\ <<"mutex", "state_machine", None>> \in procs.calls[p].held
        /\ \E n \in LkNames : <<"mutex", "health", n>> \in procs.calls[p].held
        /\ procs.calls["main"].op = "watchdog_tick" /\ Blockers("main") = {p}
        /\ Blockers(q) = {p}

====
